--------------------------- MODULE EgressRunProofs ---------------------------
(***************************************************************************)
(* What EgressRun promises for every manifest, graph and number of runs:   *)
(* no report is lost, an installed kit's connectors start and serve what   *)
(* was declared, and references are never dropped.                         *)
(***************************************************************************)
EXTENDS EgressRun, FiniteSetTheorems, SequenceTheorems, NaturalsInduction, WellFoundedInduction, TLAPS

-----------------------------------------------------------------------------
\* Operators.

LEMMA ReportAnswer ==
    ASSUME NEW has \in BOOLEAN, NEW i \in Ids, NEW readable \in BOOLEAN, NEW accepts \in BOOLEAN
    PROVE  LET status == Handler(has, readable, outcome(i), accepts)
           IN  /\ status \in {"204", "400", "500", "501"}
               /\ status = "501" => ~has
               /\ status = "400" => ~readable
  <1>1. Validate(outcome(i))
    BY EgressRunAssumption DEF outcome, Report, Validate, Ids
  <1> QED  BY <1>1 DEF Handler, received

\* A binding whose declared words pass validation is served by exactly them.
LEMMA ModesServed ==
    ASSUME NEW b, b.modes \in Seq([word : STRING, exact : BOOLEAN]),
           \A j \in 1..Len(b.modes) : isValidSourceMode(b.modes[j])
    PROVE  LET mode == ModeFromStrings(b.modes)
           IN  /\ valid(mode)
               /\ webhookEnabled(mode) <=> declares(b, "webhook")
               /\ pollEnabled(mode) <=> declares(b, "poll") \/ b.modes = <<>>
  <1> DEFINE ms == b.modes
             words == {ms[j].word : j \in 1..Len(ms)}
  <1>1. Len(ms) \in Nat /\ \A j \in 1..Len(ms) : ms[j] \in [word : STRING, exact : BOOLEAN]
    <2> DEFINE S == [word : STRING, exact : BOOLEAN]
    <2>1. ms \in Seq(S)  OBVIOUS
    <2> HIDE DEF S, ms
    <2>2. Len(ms) \in Nat /\ \A j \in 1..Len(ms) : ms[j] \in S  BY <2>1, ElementOfSeq
    <2> QED  BY <2>2 DEF S
  <1>2. \A j \in 1..Len(ms) : ms[j].exact /\ ms[j].word \in {"poll", "webhook"}
    BY DEF isValidSourceMode
  <1>3. \A j \in 1..Len(ms) : ms[j] = [word |-> ms[j].word, exact |-> TRUE]
    BY <1>1, <1>2
  <1>4. \A word : declares(b, word) <=> word \in words
    <2>1. ASSUME NEW word, declares(b, word) PROVE word \in words
      <3>1. PICK j \in 1..Len(ms) : ms[j] = [word |-> word, exact |-> TRUE]
        BY <2>1 DEF declares, Elements
      <3>2. ms[j].word = word  BY <3>1
      <3> QED  BY <3>2
    <2>2. ASSUME NEW word, word \in words PROVE declares(b, word)
      <3>1. PICK j \in 1..Len(ms) : ms[j].word = word  BY <2>2
      <3>2. ms[j] = [word |-> word, exact |-> TRUE]  BY <1>3, <3>1
      <3> QED  BY <3>2 DEF declares, Elements
    <2> QED  BY <2>1, <2>2
  <1>5. words \subseteq {"poll", "webhook"}  BY <1>2
  <1>6. ms = <<>> => words = {}  BY <1>1
  <1>7. words = {} => ms = <<>>
    <2> SUFFICES ASSUME words = {} PROVE ms = <<>>  OBVIOUS
    <2>1. Len(ms) = 0
      <3>1. CASE Len(ms) # 0
        <4>1. 1 \in 1..Len(ms)  BY <1>1, <3>1
        <4>2. ms[1].word \in words  BY <4>1
        <4> QED  BY <4>2
      <3> QED  BY <3>1
    <2> QED  BY <2>1, EmptySeq
  <1> DEFINE mode == ModeFromStrings(ms)
             poll == words \cap {"poll", "both"} # {}
             webhook == words \cap {"webhook", "both"} # {}
  <1>8. mode = IF poll /\ webhook THEN "both" ELSE IF webhook THEN "webhook" ELSE "poll"
    BY DEF ModeFromStrings
  <1> HIDE DEF words, ms, mode
  <1>9. (poll <=> "poll" \in words) /\ (webhook <=> "webhook" \in words)
    BY <1>5
  <1>10. poll \/ webhook \/ words = {}  BY <1>5, <1>9
  <1> HIDE DEF poll, webhook
  <1>11. valid(mode)  BY <1>8 DEF valid
  <1>12. webhookEnabled(mode) <=> webhook  BY <1>8 DEF webhookEnabled
  <1>13. pollEnabled(mode) <=> poll \/ ~webhook  BY <1>8 DEF pollEnabled
  <1>14. declares(b, "webhook") <=> webhook  BY <1>4, <1>9
  <1>15. declares(b, "poll") \/ b.modes = <<>> <=> poll \/ ~webhook
    BY <1>4, <1>6, <1>7, <1>9, <1>10 DEF ms
  <1> QED  BY <1>11, <1>12, <1>13, <1>14, <1>15 DEF mode, ms

\* What the kit's connectors start with, once the manifest is valid.
LEMMA BindingsStart ==
    ASSUME NEW c, Len(c.bindings) \in Nat,
           \A j \in 1..Len(c.bindings) : c.bindings[j].modes \in Seq([word : STRING, exact : BOOLEAN]),
           \A j \in 1..Len(c.bindings) : validateSourceBinding(c.bindings[j]),
           Distinct(field(c.bindings, "id"))
    PROVE  /\ validateBindings(bindingsOf(c))
           /\ \A j \in 1..Len(c.bindings) :
                 LET mode == bindingsOf(c)[j].mode
                 IN  /\ webhookEnabled(mode) <=> declares(c.bindings[j], "webhook")
                     /\ pollEnabled(mode) <=>
                           declares(c.bindings[j], "poll") \/ c.bindings[j].modes = <<>>
  <1> DEFINE bs == c.bindings
             n == Len(bs)
             started == bindingsOf(c)
  <1>1. started = [j \in 1..n |-> [id |-> bs[j].id, mode |-> ModeFromStrings(bs[j].modes)]]
    BY DEF bindingsOf
  <1>2. n \in Nat  OBVIOUS
  <1>3. Len(started) = n /\ \A j \in 1..n : started[j].id = bs[j].id /\ started[j].mode = ModeFromStrings(bs[j].modes)
    BY <1>1, <1>2
  <1>4. ASSUME NEW j \in 1..n
        PROVE  /\ bs[j].id # ""
               /\ valid(ModeFromStrings(bs[j].modes))
               /\ webhookEnabled(ModeFromStrings(bs[j].modes)) <=> declares(bs[j], "webhook")
               /\ pollEnabled(ModeFromStrings(bs[j].modes)) <=> declares(bs[j], "poll") \/ bs[j].modes = <<>>
    <2>1. bs[j].modes \in Seq([word : STRING, exact : BOOLEAN])  OBVIOUS
    <2>2. bs[j].id # "" /\ \A l \in 1..Len(bs[j].modes) : isValidSourceMode(bs[j].modes[l])
      BY DEF validateSourceBinding
    <2> QED  BY <2>1, <2>2, ModesServed
  <1> HIDE DEF started
  <1>5. Distinct(field(started, "id"))
    <2>1. field(started, "id") = [j \in 1..n |-> started[j].id]  BY <1>3 DEF field
    <2>2. field(bs, "id") = [j \in 1..n |-> bs[j].id]  BY DEF field
    <2>3. [j \in 1..n |-> started[j].id] = [j \in 1..n |-> bs[j].id]  BY <1>3
    <2> QED  BY <2>1, <2>2, <2>3
  <1>6. validateBindings(started)  BY <1>3, <1>4, <1>5 DEF validateBindings
  <1> QED  BY <1>3, <1>4, <1>6 DEF started

-----------------------------------------------------------------------------
\* The inductive invariant.

Idle == phase \in {"uploaded", "refused"}

\* What runs was read from a manifest that passed validation.
Installed ==
    ~Idle => accepted /\ spec = Unmarshal(doc.egress_syncs[1])

Documented == world \in Worlds /\ doc \in DocsFor(world) /\ receiver \in BOOLEAN

\* Nothing is written before that.
Untouched == Idle => lane = "none" /\ pushed = {}

\* A level holds rows of the entry it belongs to.
LevelInv ==
    lane = "entities" /\ k <= Len(spec.entities_sync) =>
        level \subseteq Rows(spec.entities_sync[k].name)

\* References come from an entry for the record's type that declares some.
refersTo(r) ==
    \E j \in 1..Len(spec.entities_sync) :
        typeOf[r] = spec.entities_sync[j].name /\ spec.entities_sync[j].reference_edges # <<>>
RefsInv == \A r \in pushed : external[r].refs => refersTo(r)

\* A run is reported once, when it ends, and a report that is still to be
\* delivered has tries left.
BudgetInv ==
    \A i \in Ids : /\ report[i] \in {"none", "pending"} => tries[i] < MaxTries
                   /\ i > runs \/ (i = runs /\ phase = "running") => report[i] = "none"

RInv ==
    /\ TypeOK
    /\ Documented
    /\ Installed
    /\ Untouched
    /\ LevelInv
    /\ RefsInv
    /\ BudgetInv
    /\ ReportNotLost

LEMMA RInvServes ==
    ASSUME RInv
    PROVE  BindingsServed
  <1> SUFFICES ASSUME phase \in {"idle", "running"}, NEW i \in 1..Len(doc.source_connectors)
               PROVE  LET c == doc.source_connectors[i]
                          started == bindingsOf(c)
                      IN  /\ validateBindings(started)
                          /\ \A j \in 1..Len(c.bindings) :
                                /\ webhookEnabled(started[j].mode) <=> declares(c.bindings[j], "webhook")
                                /\ pollEnabled(started[j].mode) <=>
                                      declares(c.bindings[j], "poll") \/ c.bindings[j].modes = <<>>
    BY DEF BindingsServed
  <1> DEFINE c == doc.source_connectors[i]
  <1>1. validateSourceConnectors(doc.source_connectors)
    BY DEF RInv, Installed, Idle, accepted, ValidateManifest
  <1>2. /\ \A j \in 1..Len(c.bindings) : validateSourceBinding(c.bindings[j])
        /\ Distinct(field(c.bindings, "id"))
    BY <1>1 DEF validateSourceConnectors
  <1>3. world \in Worlds /\ doc \in DocsFor(world)  BY DEF RInv, Documented
  <1>4. /\ Len(c.bindings) \in Nat
        /\ \A j \in 1..Len(c.bindings) : c.bindings[j].modes \in Seq([word : STRING, exact : BOOLEAN])
    BY <1>3, DocAssumption
  <1> HIDE DEF c
  <1>5. /\ validateBindings(bindingsOf(c))
        /\ \A j \in 1..Len(c.bindings) :
              /\ webhookEnabled(bindingsOf(c)[j].mode) <=> declares(c.bindings[j], "webhook")
              /\ pollEnabled(bindingsOf(c)[j].mode) <=>
                    declares(c.bindings[j], "poll") \/ c.bindings[j].modes = <<>>
    BY <1>2, <1>4, BindingsStart
  <1> QED  BY <1>5 DEF c

\* Where changes are fed between runs nothing has references.
LEMMA FedWithoutReferences ==
    ASSUME RInv, ~Idle, EffectiveChangeDelivery(spec) = "events"
    PROVE  \A r \in pushed : ~external[r].refs
  <1> DEFINE syncs == [j \in 1..Len(doc.egress_syncs) |-> Unmarshal(doc.egress_syncs[j])]
  <1>1. accepted /\ spec = Unmarshal(doc.egress_syncs[1]) /\ Documented  BY DEF RInv, Installed
  <1>2. validateEgressSyncs(syncs)  BY <1>1 DEF accepted, ValidateManifest
  <1>3. Len(doc.egress_syncs) \in Nat \ {0}  BY <1>1, DocAssumption DEF Documented
  <1>4. Len(syncs) = Len(doc.egress_syncs) /\ 1 \in 1..Len(syncs) /\ syncs[1] = spec
    BY <1>1, <1>3
  <1> HIDE DEF syncs
  <1>5. validateEgressSync(spec)  BY <1>2, <1>4 DEF validateEgressSyncs
  <1>6. \A j \in 1..Len(spec.entities_sync) : spec.entities_sync[j].reference_edges = <<>>
    BY <1>5 DEF validateEgressSync, validateEgressDelivery
  <1> QED  BY <1>6 DEF RInv, RefsInv, refersTo

LEMMA InitKeepsRInv ==
    ASSUME Init
    PROVE  RInv
  <1>1. pushed = {}  BY DEF Init, pushed
  <1>2. TypeOK  BY <1>1, EgressRunAssumption DEF Init, TypeOK
  <1>3. Documented  BY EgressRunAssumption DEF Init, Documented
  <1>4. Installed /\ Untouched /\ LevelInv /\ RefsInv
    BY <1>1 DEF Init, Installed, Untouched, Idle, LevelInv, RefsInv
  <1>5. ReportNotLost /\ BudgetInv  BY EgressRunAssumption DEF Init, ReportNotLost, BudgetInv, Ids
  <1> QED  BY <1>2, <1>3, <1>4, <1>5 DEF RInv

\* A step that leaves the declaration, the external records and the reports.
LEMMA Unwritten ==
    ASSUME RInv, TypeOK', LevelInv', BudgetInv', ~Idle, phase' \in {"idle", "running"},
           UNCHANGED <<declaration, external, reportVars>>
    PROVE  RInv'
  <1>1. UNCHANGED <<world, doc, spec, receiver, external, report, inbox, tries, unread>>
    BY DEF declaration, reportVars
  <1>2. Documented' /\ Installed' /\ Untouched'
    BY <1>1 DEF RInv, Documented, Installed, Untouched, Idle, accepted
  <1>3. RefsInv' /\ ReportNotLost'
    BY <1>1 DEF RInv, RefsInv, refersTo, pushed, ReportNotLost
  <1> QED  BY <1>2, <1>3 DEF RInv
LEMMA UploadKeepsRInv ==
    ASSUME RInv, Upload
    PROVE  RInv'
  <1>1. /\ UNCHANGED <<world, doc, receiver, lane, k, walked, level, clean, runs, external, linked, report, inbox,
                       tries, unread>>
        /\ UNCHANGED <<failures, events>> /\ lane = "none" /\ pushed = {} /\ pushed' = {}
        /\ phase # "running" /\ phase' # "running"
    BY DEF Upload, runVars, externalVars, reportVars, RInv, Untouched, Idle, pushed
  <1>2. TypeOK'  BY <1>1 DEF Upload, RInv, TypeOK
  <1>3. Documented' /\ LevelInv' /\ ReportNotLost' /\ BudgetInv'
    BY <1>1 DEF RInv, Documented, LevelInv, ReportNotLost, BudgetInv
  <1>4. RefsInv'  BY <1>1 DEF RefsInv
  <1>5. Installed' /\ Untouched'
    BY <1>1 DEF Upload, Installed, Untouched, Idle, accepted
  <1> QED  BY <1>2, <1>3, <1>4, <1>5 DEF RInv

LEMMA EntriesCounted ==
    ASSUME RInv, ~Idle
    PROVE  Len(spec.entities_sync) \in Nat
  <1> DEFINE e == doc.egress_syncs[1]
             read == [i \in 1..Len(e.entities_sync) |-> UnmarshalEntityType(e.entities_sync[i])]
  <1>1. spec = Unmarshal(e)  BY DEF RInv, Installed
  <1>2. e = [f \in DOMAIN e |-> e[f]] /\ "entities_sync" \in DOMAIN e /\ Len(e.entities_sync) \in Nat
    BY DocAssumption DEF RInv, Documented
  <1> HIDE DEF e
  <1>3. Unmarshal(e) = [e EXCEPT !.entities_sync = read]  BY DEF Unmarshal
  <1>4. Len(read) = Len(e.entities_sync)  BY <1>2
  <1> HIDE DEF read
  <1>5. [e EXCEPT !.entities_sync = read].entities_sync = read  BY <1>2
  <1> QED  BY <1>1, <1>2, <1>3, <1>4, <1>5

LEMMA LaneIsRun ==
    ASSUME RInv, lane # "none"
    PROVE  ~Idle /\ phase \in {"idle", "running"}
  BY DEF RInv, Untouched, Idle, TypeOK

LEMMA StartRunKeepsRInv ==
    ASSUME RInv, StartRun
    PROVE  RInv'
  <1>1. TypeOK'
    BY EgressRunAssumption DEF StartRun, RInv, TypeOK, externalVars, reportVars, pushed
  <1>2. LevelInv'  BY DEF StartRun, LevelInv
  <1>3. BudgetInv'
    <2>1. runs' = runs + 1 /\ report' = report /\ tries' = tries /\ runs \in Nat
      BY EgressRunAssumption DEF StartRun, reportVars, RInv, TypeOK
    <2>2. \A i \in Ids : i \in Nat  BY DEF Ids
    <2> QED  BY <2>1, <2>2 DEF RInv, BudgetInv
  <1> QED  BY <1>1, <1>2, <1>3, Unwritten DEF StartRun, Idle, externalVars

\* The steps of a run that write no record.
LEMMA WalkKeepsRInv ==
    ASSUME RInv, PushAnchor \/ OntologyDone \/ NextLevel \/ TypeDone \/ EntitiesDone \/ PushRule \/ RelationshipsDone
    PROVE  RInv'
  <1>1. ~Idle /\ phase \in {"idle", "running"}
    BY LaneIsRun DEF PushAnchor, OntologyDone, NextLevel, TypeDone, EntitiesDone, PushRule, RelationshipsDone
  <1>2. UNCHANGED <<declaration, external, reportVars, phase, runs, events>>
    BY DEF PushAnchor, OntologyDone, NextLevel, TypeDone, EntitiesDone, PushRule, RelationshipsDone, externalVars
  <1>3. pushed' = pushed /\ spec' = spec /\ UNCHANGED <<report, inbox, tries, unread>>
    BY <1>2 DEF pushed, declaration, reportVars
  <1>4. TypeOK /\ BudgetInv'  BY <1>2, <1>3 DEF RInv, BudgetInv
  <1>5. CASE PushAnchor
    <2>1. k' = k + 1 /\ UNCHANGED <<lane, walked, level, linked>>
      BY <1>5 DEF PushAnchor
    <2>2. \/ UNCHANGED <<clean, failures>>
          \/ failures < MaxFailures /\ failures' = failures + 1 /\ clean' = FALSE
      BY <1>5 DEF PushAnchor
    <2>3. clean' \in BOOLEAN /\ failures' \in 0..MaxFailures
      <3>1. clean \in BOOLEAN /\ failures \in 0..MaxFailures /\ MaxFailures \in Nat
        BY <1>4, EgressRunAssumption DEF TypeOK
      <3>2. CASE UNCHANGED <<clean, failures>>  BY <3>1, <3>2
      <3>3. CASE failures < MaxFailures /\ failures' = failures + 1 /\ clean' = FALSE
        <4>1. failures' \in 0..MaxFailures  BY <3>1, <3>3
        <4> QED  BY <3>3, <4>1
      <3> QED  BY <2>2, <3>2, <3>3
    <2>4. TypeOK'  BY <1>2, <1>3, <1>4, <2>1, <2>3 DEF TypeOK
    <2>5. LevelInv'  BY <1>5 DEF PushAnchor, LevelInv
    <2> QED  BY <1>1, <1>2, <1>4, <2>4, <2>5, Unwritten
  <1>6. CASE OntologyDone \/ EntitiesDone \/ RelationshipsDone
    <2>1. /\ lane' \in {"entities", "relationships", "none"} /\ k' = 1 /\ walked' = {} /\ level' = {}
          /\ clean' \in BOOLEAN
      BY <1>4, <1>6 DEF OntologyDone, EntitiesDone, RelationshipsDone, advance, TypeOK
    <2>2. UNCHANGED <<linked, failures>>
      BY <1>6 DEF OntologyDone, EntitiesDone, RelationshipsDone, externalVars
    <2>3. TypeOK'  BY <1>2, <1>3, <1>4, <2>1, <2>2 DEF TypeOK
    <2>4. LevelInv'  BY <2>1 DEF LevelInv
    <2> QED  BY <1>1, <1>2, <1>4, <2>3, <2>4, Unwritten
  <1>7. CASE NextLevel
    <2> DEFINE et == spec.entities_sync[k]
    <2>1. level' = nextLevel(et) /\ UNCHANGED <<lane, k, walked, clean, linked, failures>>
      BY <1>7 DEF NextLevel, externalVars
    <2>2. nextLevel(et) \subseteq Rows(et.name)
      BY DEF nextLevel, roots, children
    <2>3. level' \subseteq Record  BY <2>1, <2>2 DEF Rows
    <2>4. TypeOK'  BY <1>2, <1>3, <1>4, <2>1, <2>3 DEF TypeOK
    <2>5. LevelInv'  BY <1>3, <2>1, <2>2 DEF LevelInv, Rows
    <2> QED  BY <1>1, <1>2, <1>4, <2>4, <2>5, Unwritten
  <1>8. CASE TypeDone
    <2>1. /\ k' = k + 1 /\ walked' = {} /\ level' = {} /\ UNCHANGED <<lane, clean, linked, failures>>
      BY <1>8 DEF TypeDone
    <2>2. TypeOK'  BY <1>2, <1>3, <1>4, <2>1 DEF TypeOK
    <2>3. LevelInv'  BY <2>1 DEF LevelInv
    <2> QED  BY <1>1, <1>2, <1>4, <2>2, <2>3, Unwritten
  <1>9. CASE PushRule
    <2>1. /\ k' = k + 1 /\ clean' \in BOOLEAN /\ linked' \subseteq Edges
          /\ lane = "relationships" /\ UNCHANGED <<lane, walked, level, failures>>
      BY <1>4, <1>9 DEF PushRule, TypeOK
    <2>2. TypeOK'  BY <1>2, <1>3, <1>4, <2>1 DEF TypeOK
    <2>3. LevelInv'  BY <2>1 DEF LevelInv
    <2> QED  BY <1>1, <1>2, <1>4, <2>2, <2>3, Unwritten
  <1> QED  BY <1>5, <1>6, <1>7, <1>8, <1>9

\* Rows of one declared entry are written.
LEMMA WriteKeepsRefs ==
    ASSUME RInv, NEW j \in 1..Len(spec.entities_sync), NEW rows,
           rows \subseteq Rows(spec.entities_sync[j].name), NEW refs \in BOOLEAN,
           write(spec.entities_sync[j], rows, refs), spec' = spec
    PROVE  /\ pushed' = pushed \cup rows /\ RefsInv'
           /\ \E cut \in BOOLEAN :
                 /\ cut => collides(spec.entities_sync[j])
                 /\ \A r \in pushed' : IF r \in rows THEN external'[r] = asSent(spec.entities_sync[j], r, refs, cut)
                                       ELSE external'[r] = external[r]
  <1> DEFINE et == spec.entities_sync[j]
  <1>0. PICK cut \in IF collides(et) THEN BOOLEAN ELSE {FALSE} :
            external' = [r \in pushed \cup rows |-> IF r \in rows THEN asSent(et, r, refs, cut) ELSE external[r]]
    BY DEF write
  <1>1. external' = [r \in pushed \cup rows |-> IF r \in rows THEN asSent(et, r, refs, cut) ELSE external[r]]
    BY <1>0
  <1>2. pushed' = pushed \cup rows  BY <1>1 DEF pushed
  <1>3. \A r \in pushed' : IF r \in rows THEN external'[r] = asSent(et, r, refs, cut) ELSE external'[r] = external[r]
    BY <1>1, <1>2
  <1>4. ASSUME NEW r \in pushed', external'[r].refs PROVE refersTo(r)'
    <2>1. CASE r \in rows
      <3> DEFINE flag == refs /\ et.reference_edges # <<>>
                 owner == IF cut THEN {} ELSE ownersSent(et, r)
      <3>1. external'[r] = [owner |-> owner, refs |-> flag]  BY <1>3, <2>1 DEF asSent
      <3> HIDE DEF flag, owner
      <3>2. external'[r].refs = flag  BY <3>1
      <3>3. flag  BY <1>4, <3>2
      <3>4. et.reference_edges # <<>> /\ typeOf[r] = et.name  BY <2>1, <3>3 DEF Rows, flag
      <3> QED  BY <3>4 DEF refersTo
    <2>2. CASE r \notin rows
      <3>1. r \in pushed /\ external'[r] = external[r]  BY <1>2, <1>3, <2>2
      <3>2. refersTo(r)  BY <1>4, <3>1 DEF RInv, RefsInv
      <3> QED  BY <3>2 DEF refersTo
    <2> QED  BY <2>1, <2>2
  <1>5. cut \in BOOLEAN /\ (cut => collides(et))  BY <1>0
  <1>6. RefsInv'  BY <1>4 DEF RefsInv
  <1> QED  BY <1>2, <1>3, <1>5, <1>6

LEMMA PushBatchKeepsRInv ==
    ASSUME RInv, PushBatch
    PROVE  RInv' /\ \A r \in pushed' : r \in pushed /\ external'[r] # external[r] =>
                        /\ r \in Rows(spec.entities_sync[k].name)
                        /\ \E cut \in BOOLEAN : external'[r] = asSent(spec.entities_sync[k], r, TRUE, cut)
  <1> DEFINE et == spec.entities_sync[k]
             due == level \ walked
             size == Min({EffectiveBatchSize(spec), Cardinality(due)})
  <1>1. PICK rows \in kSubset(size, due) :
            LET good == {r \in rows : writable(et, r)}
            IN  /\ \E bad \in {{}} \cup {{r} : r \in good} :
                      /\ failures' = failures + Cardinality(bad)
                      /\ failures' <= MaxFailures
                      /\ write(et, good \ bad, TRUE)
                      /\ clean' = (clean /\ bad = {} /\ good = rows)
                /\ walked' = walked \cup rows
    BY DEF PushBatch
  <1> DEFINE good == {r \in rows : writable(et, r)}
  <1>2. PICK bad \in {{}} \cup {{r} : r \in good} :
            /\ failures' = failures + Cardinality(bad)
            /\ failures' <= MaxFailures
            /\ write(et, good \ bad, TRUE)
            /\ clean' = (clean /\ bad = {} /\ good = rows)
    BY <1>1
  <1>3. /\ UNCHANGED <<declaration, phase, lane, k, level, runs, catalog, converged, linked, events, reportVars>>
        /\ lane = "entities" /\ k <= Len(spec.entities_sync)
    BY DEF PushBatch
  <1>4. UNCHANGED <<world, doc, spec, receiver, report, inbox, tries, unread>>  BY <1>3 DEF declaration, reportVars
  <1>5. TypeOK /\ LevelInv /\ ~Idle /\ phase \in {"idle", "running"}
    BY <1>3, LaneIsRun DEF RInv
  <1>6. rows \subseteq due  BY <1>1 DEF kSubset
  <1>7. Cardinality(bad) \in Nat
    <2>1. CASE bad = {}  BY <2>1, FS_EmptySet
    <2>2. CASE bad # {}
      <3>1. PICK r \in good : bad = {r}  BY <1>2, <2>2
      <3> QED  BY <3>1, FS_Singleton
    <2> QED  BY <2>1, <2>2
  <1>8. failures' \in 0..MaxFailures /\ clean' \in BOOLEAN
    BY <1>2, <1>5, <1>7, EgressRunAssumption DEF TypeOK
  <1>9. walked' = walked \cup rows /\ rows \subseteq level /\ level \subseteq Rows(et.name)
    BY <1>1, <1>3, <1>5, <1>6 DEF LevelInv
  <1> DEFINE wrote == good \ bad
  <1>10. wrote \subseteq Rows(et.name)  BY <1>9
  <1>11. k \in 1..Len(spec.entities_sync)
    <2>1. Len(spec.entities_sync) \in Nat  BY <1>5, EntriesCounted
    <2> QED  BY <1>3, <1>5, <2>1 DEF TypeOK
  <1>12. write(spec.entities_sync[k], wrote, TRUE) /\ TRUE \in BOOLEAN /\ spec' = spec  BY <1>2, <1>4
  <1> HIDE DEF wrote, good, due, size
  <1>13. /\ pushed' = pushed \cup wrote /\ RefsInv'
         /\ \E cut \in BOOLEAN : \A r \in pushed' :
               IF r \in wrote THEN external'[r] = asSent(et, r, TRUE, cut) ELSE external'[r] = external[r]
    <2>1. /\ pushed' = pushed \cup wrote /\ RefsInv'
          /\ \E cut \in BOOLEAN :
                /\ cut => collides(spec.entities_sync[k])
                /\ \A r \in pushed' : IF r \in wrote THEN external'[r] = asSent(spec.entities_sync[k], r, TRUE, cut)
                                      ELSE external'[r] = external[r]
      BY <1>10, <1>11, <1>12, WriteKeepsRefs
    <2> QED  BY <2>1
  <1>14. TypeOK'
    <2>1. wrote \subseteq Record /\ rows \subseteq Record  BY <1>9, <1>10 DEF Rows
    <2>2. pushed' \subseteq Record /\ walked' \subseteq Record
      BY <1>5, <1>9, <1>13, <2>1 DEF TypeOK
    <2> QED  BY <1>3, <1>4, <1>5, <1>8, <2>2 DEF TypeOK
  <1>15. Documented' /\ Installed' /\ Untouched'
    BY <1>3, <1>4, <1>5 DEF RInv, Documented, Installed, Untouched, Idle, accepted
  <1>16. LevelInv' /\ ReportNotLost' /\ BudgetInv'
    BY <1>3, <1>4, <1>5 DEF RInv, LevelInv, ReportNotLost, BudgetInv, Rows
  <1>17. RInv'  BY <1>13, <1>14, <1>15, <1>16 DEF RInv
  <1> QED  BY <1>10, <1>13, <1>17

LEMMA EventPushKeepsRInv ==
    ASSUME RInv, NEW j \in 1..Len(spec.entities_sync), NEW r \in Record, EventPush(j, r)
    PROVE  RInv' /\ ~Idle /\ EffectiveChangeDelivery(spec) = "events"
  <1> DEFINE et == spec.entities_sync[j]
  <1>1. /\ UNCHANGED <<declaration, phase, runVars, runs, catalog, converged, linked, failures, reportVars>>
        /\ phase \in {"idle", "running"} /\ events < MaxEvents /\ events' = events + 1
        /\ r \in Rows(et.name) \cap pushed /\ write(et, {r}, FALSE) /\ EffectiveChangeDelivery(spec) = "events"
    BY DEF EventPush
  <1>2. UNCHANGED <<world, doc, spec, receiver, report, inbox, tries, unread, lane, k, walked, level, clean>> /\ TypeOK
    BY <1>1 DEF declaration, reportVars, runVars, RInv
  <1> DEFINE rows == {r}
  <1>3. rows \subseteq Rows(et.name) /\ rows \subseteq pushed /\ FALSE \in BOOLEAN /\ write(et, rows, FALSE)  BY <1>1
  <1> HIDE DEF rows
  <1>4. pushed' = pushed \cup rows /\ RefsInv'  BY <1>2, <1>3, WriteKeepsRefs
  <1>5. pushed' = pushed  BY <1>3, <1>4
  <1>6. events' \in 0..MaxEvents  BY <1>1, <1>2, EgressRunAssumption DEF TypeOK
  <1>7. TypeOK'  BY <1>1, <1>2, <1>5, <1>6 DEF TypeOK
  <1>8. Documented' /\ Installed' /\ Untouched' /\ ~Idle
    BY <1>1, <1>2 DEF RInv, Documented, Installed, Untouched, Idle, accepted
  <1>9. LevelInv' /\ ReportNotLost' /\ BudgetInv'
    BY <1>1, <1>2 DEF RInv, LevelInv, ReportNotLost, BudgetInv, Rows
  <1> QED  BY <1>1, <1>4, <1>7, <1>8, <1>9 DEF RInv

LEMMA RunEndsKeepsRInv ==
    ASSUME RInv, RunEnds
    PROVE  RInv'
  <1>1. /\ UNCHANGED <<world, doc, spec, receiver, lane, k, walked, level, clean, runs, external, linked>>
        /\ UNCHANGED <<failures, events, inbox, tries, unread>> /\ phase = "running" /\ phase' = "idle" /\ pushed' = pushed
    BY DEF RunEnds, declaration, runVars, externalVars, pushed
  <1>2. report' = report \/ report' = [report EXCEPT ![runs] = "pending"]  BY DEF RunEnds
  <1>3. report \in [Ids -> {"none", "pending", "delivered", "dead"}]  BY DEF RInv, TypeOK
  <1>4. report' \in [Ids -> {"none", "pending", "delivered", "dead"}]  BY <1>2, <1>3
  <1>5. TypeOK'  BY <1>1, <1>4 DEF RInv, TypeOK
  <1>6. ReportNotLost'
    <2>1. \A i \in Ids : report'[i] = report[i] \/ report'[i] = "pending"  BY <1>2, <1>3
    <2> QED  BY <1>1, <2>1 DEF RInv, ReportNotLost
  <1>7. Documented' /\ Installed' /\ Untouched' /\ LevelInv'
    BY <1>1 DEF RInv, Documented, Installed, Untouched, Idle, accepted, LevelInv, Rows
  <1>8. RefsInv'  BY <1>1 DEF RInv, RefsInv, refersTo
  <1>9. BudgetInv'
    <2>1. \A i \in Ids : report'[i] = report[i] \/ (i = runs /\ report'[i] = "pending")  BY <1>2, <1>3
    <2>2. \A i \in Ids : i = runs => report[i] = "none" /\ ~(i > runs)
      BY <1>1 DEF RInv, BudgetInv, Ids
    <2> QED  BY <1>1, <2>1, <2>2 DEF RInv, BudgetInv
  <1> QED  BY <1>5, <1>6, <1>7, <1>8, <1>9 DEF RInv

LEMMA DeliverKeepsRInv ==
    ASSUME RInv, NEW i \in Ids, Deliver(i)
    PROVE  RInv'
  <1>1. /\ UNCHANGED <<world, doc, spec, receiver, lane, k, walked, level, clean, runs, external, linked>>
        /\ UNCHANGED <<failures, events, phase>> /\ pushed' = pushed
    BY DEF Deliver, declaration, runVars, externalVars, pushed
  <1>2. PICK readable \in BOOLEAN, accepts \in BOOLEAN, lost \in BOOLEAN :
            LET status == Handler(receiver, readable, outcome(i), accepts)
            IN  /\ unread' = IF readable THEN unread ELSE unread \cup {i}
                /\ inbox' = IF status = "204" THEN inbox \cup {i} ELSE inbox
                /\ report' = [report EXCEPT ![i] = afterTry(i, IF lost THEN "none" ELSE status)]
    BY DEF Deliver
  <1> DEFINE status == Handler(receiver, readable, outcome(i), accepts)
             answer == IF lost THEN "none" ELSE status
             after == afterTry(i, answer)
  <1>3. /\ receiver \in BOOLEAN /\ TypeOK /\ ReportNotLost /\ BudgetInv
        /\ report[i] = "pending" /\ tries' = [tries EXCEPT ![i] = @ + 1]
        /\ MaxTries \in Nat
    BY EgressRunAssumption DEF RInv, Documented, Deliver
  <1>4. status \in {"204", "400", "500", "501"} /\ (status = "501" => ~receiver) /\ (status = "400" => ~readable)
    BY <1>3, ReportAnswer
  <1>5. /\ unread' = IF readable THEN unread ELSE unread \cup {i}
        /\ inbox' = IF status = "204" THEN inbox \cup {i} ELSE inbox
        /\ report' = [report EXCEPT ![i] = after]
    BY <1>2
  <1> HIDE DEF status
  <1>6. /\ answer \in {"none", "204", "400", "500", "501"}
        /\ answer = "204" => status = "204"
        /\ answer = "400" => status = "400"
        /\ answer = "501" => status = "501"
    BY <1>4
  <1> HIDE DEF answer
  <1>7. /\ after \in {"pending", "delivered", "dead"}
        /\ after = "delivered" => answer = "204"
        /\ after = "dead" => answer \in {"400", "501"} \/ ~(tries[i] + 1 < MaxTries)
        /\ after = "pending" => tries[i] + 1 < MaxTries
    BY <1>6 DEF afterTry
  <1> HIDE DEF after
  <1>8. /\ inbox \subseteq inbox' /\ inbox' \subseteq Ids /\ (status = "204" => i \in inbox')
        /\ unread \subseteq unread' /\ unread' \subseteq Ids /\ (~readable => i \in unread')
    BY <1>3, <1>5 DEF TypeOK
  <1>9. report' \in [Ids -> {"none", "pending", "delivered", "dead"}]
    BY <1>3, <1>5, <1>7 DEF TypeOK
  <1>10. /\ \A l \in Ids : IF l = i THEN report'[l] = after ELSE report'[l] = report[l]
         /\ \A l \in Ids : IF l = i THEN tries'[l] = tries[l] + 1 ELSE tries'[l] = tries[l]
    BY <1>3, <1>5 DEF TypeOK
  <1>11. /\ \A l \in Ids : tries[l] \in 0..MaxTries
         /\ tries[i] + 1 \in 0..MaxTries /\ (~(tries[i] + 1 < MaxTries) => tries[i] + 1 = MaxTries)
    BY <1>3 DEF TypeOK, BudgetInv
  <1>12. tries' \in [Ids -> 0..MaxTries]
    BY <1>3, <1>11 DEF TypeOK
  <1>13. ReportNotLost'
    <2> SUFFICES ASSUME NEW l \in Ids
                 PROVE  /\ report'[l] = "dead" => ~receiver \/ l \in unread' \/ tries'[l] = MaxTries
                        /\ report'[l] = "delivered" => l \in inbox'
      BY <1>1 DEF ReportNotLost
    <2>1. CASE l # i  BY <1>3, <1>8, <1>10, <2>1 DEF ReportNotLost
    <2>2. CASE l = i
      <3>1. report'[l] = after /\ tries'[l] = tries[i] + 1  BY <1>10, <2>2
      <3>2. after = "dead" => ~receiver \/ l \in unread' \/ tries'[l] = MaxTries
        BY <1>4, <1>6, <1>7, <1>8, <1>11, <2>2, <3>1
      <3> QED  BY <1>6, <1>7, <1>8, <2>2, <3>1, <3>2
    <2> QED  BY <2>1, <2>2
  <1>14. BudgetInv'
    <2> SUFFICES ASSUME NEW l \in Ids
                 PROVE  /\ report'[l] \in {"none", "pending"} => tries'[l] < MaxTries
                        /\ l > runs \/ (l = runs /\ phase = "running") => report'[l] = "none"
      BY <1>1 DEF BudgetInv
    <2>1. CASE l # i  BY <1>3, <1>10, <2>1 DEF BudgetInv
    <2>2. CASE l = i
      <3>1. ~(l > runs \/ (l = runs /\ phase = "running"))  BY <1>3, <2>2 DEF BudgetInv
      <3>2. report'[l] = after /\ tries'[l] = tries[i] + 1  BY <1>10, <2>2
      <3> QED  BY <1>7, <3>1, <3>2
    <2> QED  BY <2>1, <2>2
  <1>15. TypeOK'  BY <1>1, <1>3, <1>8, <1>9, <1>12 DEF TypeOK
  <1>16. Documented' /\ Installed' /\ Untouched' /\ LevelInv'
    BY <1>1 DEF RInv, Documented, Installed, Untouched, Idle, accepted, LevelInv, Rows
  <1>17. RefsInv'  BY <1>1 DEF RInv, RefsInv, refersTo
  <1> QED  BY <1>13, <1>14, <1>15, <1>16, <1>17 DEF RInv

LEMMA NextKeepsRInv ==
    ASSUME RInv, [Next]_vars
    PROVE  RInv'
  <1>1. CASE UNCHANGED vars
    BY <1>1 DEF vars, declaration, runVars, externalVars, reportVars, RInv, TypeOK, pushed, Documented, Installed,
       Untouched, Idle, accepted, LevelInv, Rows, RefsInv, refersTo, BudgetInv, ReportNotLost
  <1>2. CASE Upload  BY <1>2, UploadKeepsRInv
  <1>3. CASE StartRun  BY <1>3, StartRunKeepsRInv
  <1>4. CASE Run
    BY <1>4, WalkKeepsRInv, PushBatchKeepsRInv, RunEndsKeepsRInv DEF Run
  <1>5. CASE \E j \in 1..Len(spec.entities_sync) : \E r \in Record : EventPush(j, r)
    BY <1>5, EventPushKeepsRInv
  <1>6. CASE \E i \in Ids : Deliver(i)  BY <1>6, DeliverKeepsRInv
  <1> QED  BY <1>1, <1>2, <1>3, <1>4, <1>5, <1>6 DEF Next

-----------------------------------------------------------------------------
\* The theorems.

\* The inductive invariant holds in every reachable state.
THEOREM RInvHolds == Spec => []RInv
  <1>1. Init => RInv  BY InitKeepsRInv
  <1>2. RInv /\ [Next]_vars => RInv'  BY NextKeepsRInv
  <1> QED  BY <1>1, <1>2, PTL DEF Spec

\* Every variable of a run keeps its type.
THEOREM EgressRunTypeOK == Spec => []TypeOK
  <1>1. RInv => TypeOK  BY DEF RInv
  <1> QED  BY <1>1, RInvHolds, PTL

\* However many runs are reported and however often an answer is lost, a body
\* breaks off or the receiver fails: a report is given up only where no
\* receiver is, where its own body could not be read, or when every try of the
\* budget is used up, and what counts as delivered was taken.
\* [outcomereport.go Handler]
THEOREM EgressReportNotLost == Spec => []ReportNotLost
  <1>1. RInv => ReportNotLost  BY DEF RInv
  <1> QED  BY <1>1, RInvHolds, PTL

\* For every manifest that passes Validate, with any number of connectors,
\* bindings and declared modes, the connectors start and serve exactly the
\* modes the manifest declares.  [manifest.go isValidSourceMode; types.go
\* ModeFromStrings, webhookEnabled]
THEOREM EgressBindingsServed == Spec => []BindingsServed
  <1>1. RInv => BindingsServed  BY RInvServes
  <1> QED  BY <1>1, RInvHolds, PTL

LEMMA StepKeepsReferences ==
    ASSUME RInv, [Next]_vars, phase # "uploaded", NEW r \in pushed, external[r].refs, listedOnce(typeOf[r])
    PROVE  external'[r].refs
  <1>1. CASE external' = external  BY <1>1
  <1>2. CASE PushBatch /\ external'[r] # external[r]
    <2> DEFINE et == spec.entities_sync[k]
    <2>1. lane = "entities" /\ k <= Len(spec.entities_sync)  BY <1>2 DEF PushBatch
    <2>2. Len(spec.entities_sync) \in Nat /\ k \in Nat \ {0}
      BY <2>1, LaneIsRun, EntriesCounted DEF RInv, TypeOK
    <2>3. k \in 1..Len(spec.entities_sync)  BY <2>1, <2>2
    <2>4. r \in pushed'
      <3>1. PICK rows : write(et, rows, TRUE)  BY <1>2 DEF PushBatch
      <3> QED  BY <3>1 DEF write, pushed
    <2>5. PICK cut \in BOOLEAN : r \in Rows(et.name) /\ external'[r] = asSent(et, r, TRUE, cut)
      BY <1>2, <2>4, PushBatchKeepsRInv
    <2>6. PICK j \in 1..Len(spec.entities_sync) :
              typeOf[r] = spec.entities_sync[j].name /\ spec.entities_sync[j].reference_edges # <<>>
      BY DEF RInv, RefsInv, refersTo
    <2>7. j = k  BY <2>3, <2>5, <2>6 DEF listedOnce, Rows
    <2> DEFINE flag == TRUE /\ et.reference_edges # <<>>
               owner == IF cut THEN {} ELSE ownersSent(et, r)
    <2>8. external'[r] = [owner |-> owner, refs |-> flag]  BY <2>5 DEF asSent
    <2>9. flag  BY <2>6, <2>7
    <2> HIDE DEF flag, owner
    <2> QED  BY <2>8, <2>9
  <1>3. ASSUME NEW j \in 1..Len(spec.entities_sync), NEW q \in Record, EventPush(j, q) PROVE FALSE
    <2>1. ~Idle /\ EffectiveChangeDelivery(spec) = "events"  BY <1>3, EventPushKeepsRInv
    <2> QED  BY <2>1, FedWithoutReferences
  <1>4. CASE UNCHANGED vars  BY <1>1, <1>4 DEF vars, externalVars
  <1>5. CASE StartRun  BY <1>1, <1>5 DEF StartRun, externalVars
  <1>6. CASE Run
    BY <1>1, <1>2, <1>6 DEF Run, PushAnchor, OntologyDone, NextLevel, TypeDone, EntitiesDone, PushRule,
       RelationshipsDone, RunEnds, externalVars
  <1>7. CASE \E i \in Ids : Deliver(i)  BY <1>1, <1>7 DEF Deliver, externalVars
  <1> QED  BY <1>3, <1>4, <1>5, <1>6, <1>7 DEF Next, Upload

\* In every accepted declaration a record that a run wrote with references is
\* never replaced by one without them, neither by a later run nor by a change
\* that is fed in between, as long as no other entry lists its type; Validate
\* lets a second one pass.  [egress.go validateEgressDelivery]
THEOREM EgressReferencesKept == Spec => ReferencesKept
  <1>1. RInv /\ [Next]_vars =>
           [phase # "uploaded" =>
              \A r \in pushed : external[r].refs /\ listedOnce(typeOf[r]) => external'[r].refs]_vars
    BY StepKeepsReferences
  <1> QED  BY <1>1, RInvHolds, PTL DEF Spec, ReferencesKept

\* Where changes are fed to a component nothing it holds has references, for
\* every accepted declaration: the change feed cannot drop one.  [egress.go
\* validateEgressDelivery]
FedIsBare ==
    phase \in {"idle", "running"} /\ EffectiveChangeDelivery(spec) = "events" =>
        \A r \in pushed : ~external[r].refs

\* A component that is fed changes holds no record with references.
THEOREM EgressFedIsBare == Spec => []FedIsBare
  <1>1. RInv => FedIsBare  BY FedWithoutReferences DEF FedIsBare, Idle
  <1> QED  BY <1>1, RInvHolds, PTL

-----------------------------------------------------------------------------
\* A clean run is whole: the edges of an accepted declaration.

LEMMA GreatestNumber ==
    ASSUME NEW n \in Nat, NEW S, S \subseteq 1..n, S # {}
    PROVE  Max(S) \in S
  <1> DEFINE R == OpToRel(<, Nat)
             T == {n - x : x \in S}
  <1>1. IsWellFoundedOn(R, Nat)  BY NatLessThanWellFounded
  <1>2. \A x, y \in Nat : <<y, x>> \in R <=> y < x
    BY DEF OpToRel
  <1>3. T \subseteq Nat /\ T # {}
    <2>1. \A x \in S : n - x \in Nat  OBVIOUS
    <2>2. PICK x \in S : TRUE  OBVIOUS
    <2>3. n - x \in T  OBVIOUS
    <2> QED  BY <2>1, <2>3
  <1> HIDE DEF R, T
  <1>4. PICK t \in T : \A y \in T : ~(<<y, t>> \in R)  BY <1>1, <1>3, WFMin
  <1>5. PICK m \in S : t = n - m  BY <1>4 DEF T
  <1>6. ASSUME NEW y \in S PROVE m >= y
    <2>1. n - y \in T  BY DEF T
    <2>2. n - y \in Nat /\ n - m \in Nat /\ m \in Nat /\ y \in Nat  OBVIOUS
    <2>3. ~(n - y < n - m)  BY <1>2, <1>4, <1>5, <2>1, <2>2
    <2> QED  BY <2>2, <2>3
  <1>7. \E x \in S : \A y \in S : x >= y  BY <1>6
  <1> QED  BY <1>7 DEF Max

\* Sanitizing leaves a name alone that validation lets through.
LEMMA AddressableIsStored ==
    ASSUME NEW name \in Seq(STRING), isAddressableEdgeName(name)
    PROVE  sanitizeEdgeName(name) = name
  <1> DEFINE n == Len(name)
             legal == [i \in 1..n |-> IF name[i] \in Letters THEN name[i] ELSE "_"]
             solid == {i \in 1..n : legal[i] # "_"}
  <1>1. n \in Nat /\ n # 0 /\ n \in 1..n
    <2>0. name # <<>>  BY Zenon DEF isAddressableEdgeName
    <2>1. n \in Nat  OBVIOUS
    <2>2. n # 0  BY <2>0, EmptySeq
    <2> QED  BY <2>1, <2>2
  <1>2. \A i \in 1..n : name[i] \in Letters \cup {"_"}  BY DEF isAddressableEdgeName, Elements
  <1>3. \A i \in 1..n : legal[i] = name[i]  BY <1>2
  <1>4. name = [i \in 1..n |-> name[i]]  OBVIOUS
  <1>5. legal = name  BY <1>3, <1>4
  <1>6. name[n] # "_"  BY <1>1 DEF isAddressableEdgeName, Last
  <1>7. n \in solid /\ solid \subseteq 1..n
    <2>1. n \in 1..n /\ legal[n] # "_"  BY <1>1, <1>3, <1>6
    <2> HIDE DEF legal
    <2> QED  BY <2>1
  <1> HIDE DEF solid
  <1>8. \A y \in solid : n >= y  BY <1>1, <1>7
  <1>9. Max(solid) = n
    <2>1. \A x \in solid : (\A y \in solid : x >= y) => x = n  BY <1>1, <1>7
    <2>2. PICK x \in solid : x = Max(solid) /\ \A y \in solid : x >= y
      BY <1>7, <1>8 DEF Max
    <2> QED  BY <2>1, <2>2
  <1>10. SubSeq(name, 1, n) = name  BY <1>1, <1>4
  <1>11. sanitizeEdgeName(name) = IF solid = {} THEN <<>> ELSE SubSeq(legal, 1, Max(solid))
    BY DEF sanitizeEdgeName, solid
  <1> HIDE DEF legal
  <1> QED  BY <1>5, <1>7, <1>9, <1>10, <1>11

\* An edge that an author wrote for the stored containment, that reading did
\* not refuse and that validation let through, finds the owner.
LEMMA AcceptedEdgeFinds ==
    ASSUME world \in Worlds, NEW node, authored(world, node), UnmarshalParentEdge(node) # Refused,
           isAddressableEdgeName(UnmarshalParentEdge(node).edge)
    PROVE  finds(UnmarshalParentEdge(node)) /\ UnmarshalParentEdge(node).owner_precedence \in Seq(STRING)
  <1> DEFINE pe == UnmarshalParentEdge(node)
             names == {world.predicate, sanitizeEdgeName(world.predicate)}
  <1>1. world.predicate \in Seq(STRING) /\ world.direction \in {"out", "in"}  BY AuthorAssumption
  <1>2. ASSUME pe.edge \in names PROVE pe.edge = storedName
    BY <1>1, <1>2, AddressableIsStored DEF storedName
  <1>3. CASE node.kind = "scalar" /\ node.value \in names /\ world.direction = "out"
    <2>1. pe = [NoParentEdge EXCEPT !.edge = node.value]  BY <1>3 DEF UnmarshalParentEdge
    <2>2. pe.edge = node.value /\ pe.direction = "" /\ pe.owner_precedence = <<>>  BY <2>1 DEF NoParentEdge
    <2> HIDE DEF pe
    <2>3. EffectiveDirection(pe) = "out"  BY <2>2 DEF EffectiveDirection, NormalizeDirection
    <2>4. pe.owner_precedence \in Seq(STRING)
      <3>1. <<>> \in Seq(STRING)  OBVIOUS
      <3> QED  BY <2>2, <3>1
    <2> QED  BY <1>2, <1>3, <2>2, <2>3, <2>4 DEF finds, pe
  <1> DEFINE given(key) == {i \in 1..Len(node.pairs) : node.pairs[i].key = key}
             mistyped == \E i \in 1..Len(node.pairs) : node.pairs[i].key \notin DOMAIN NoParentEdge
  <1>4. CASE /\ node.kind = "mapping" /\ Len(node.pairs) \in Nat
             /\ \A i \in given("edge") : node.pairs[i].val \in names
             /\ \A i \in given("direction") : node.pairs[i].val = world.direction
             /\ \A i \in given("owner_precedence") : node.pairs[i].val \in Seq(STRING)
             /\ given("edge") # {} \/ mistyped
             /\ given("direction") # {} \/ mistyped \/ world.direction = "out"
    <2>1. pe = fromMapping(node, NoParentEdge)  BY <1>4 DEF UnmarshalParentEdge
    <2>2. ~mistyped  BY <2>1 DEF fromMapping
    <2>3. pe = [f \in DOMAIN NoParentEdge |-> IF given(f) = {} THEN NoParentEdge[f] ELSE node.pairs[Max(given(f))].val]
      BY <2>1, <2>2 DEF fromMapping
    <2>4. DOMAIN NoParentEdge = {"edge", "direction", "owner_precedence"}  BY DEF NoParentEdge
    <2>5. \A key : given(key) # {} => Max(given(key)) \in given(key)
      BY <1>4, GreatestNumber
    <2> HIDE DEF given, mistyped, pe
    <2>6. pe.edge = node.pairs[Max(given("edge"))].val  BY <1>4, <2>2, <2>3, <2>4
    <2>7. pe.edge \in names  BY <1>4, <2>2, <2>5, <2>6
    <2>8. pe.direction = IF given("direction") = {} THEN "" ELSE node.pairs[Max(given("direction"))].val
      BY <2>3, <2>4 DEF NoParentEdge
    <2>9. pe.direction = world.direction \/ (pe.direction = "" /\ world.direction = "out")
      BY <1>4, <2>2, <2>5, <2>8
    <2>10. EffectiveDirection(pe) = world.direction
      BY <1>1, <2>9 DEF EffectiveDirection, NormalizeDirection
    <2>11. pe.owner_precedence = IF given("owner_precedence") = {} THEN <<>>
                                 ELSE node.pairs[Max(given("owner_precedence"))].val
      BY <2>3, <2>4 DEF NoParentEdge
    <2>12. pe.owner_precedence \in Seq(STRING)
      <3>1. <<>> \in Seq(STRING)  OBVIOUS
      <3> QED  BY <1>4, <2>5, <2>11, <3>1
    <2> QED  BY <1>2, <2>7, <2>10, <2>12 DEF finds, pe
  <1> QED  BY <1>3, <1>4 DEF authored

\* An edge that was read has the fields of EgressParentEdge.
LEMMA EdgeFields ==
    ASSUME NEW node, UnmarshalParentEdge(node) # Refused
    PROVE  LET pe == UnmarshalParentEdge(node)
           IN  pe = [f \in {"edge", "direction", "owner_precedence"} |-> pe[f]]
  <1> DEFINE pe == UnmarshalParentEdge(node)
             fields == {"edge", "direction", "owner_precedence"}
  <1>1. DOMAIN NoParentEdge = fields /\ NoParentEdge = [f \in fields |-> NoParentEdge[f]]
    BY DEF NoParentEdge
  <1>2. CASE node.kind = "scalar"
    <2>1. pe = [NoParentEdge EXCEPT !.edge = node.value]  BY <1>2 DEF UnmarshalParentEdge
    <2> HIDE DEF pe, fields
    <2> QED  BY <1>1, <2>1 DEF pe, fields
  <1>3. CASE node.kind = "mapping"
    <2>1. pe = fromMapping(node, NoParentEdge)  BY <1>3 DEF UnmarshalParentEdge
    <2> QED  BY <1>1, <2>1 DEF fromMapping
  <1>4. node.kind = "scalar" \/ node.kind = "mapping"  BY DEF UnmarshalParentEdge
  <1> QED  BY <1>2, <1>3, <1>4

\* Reading keeps what an entry says of its type, and reads its edges one by one.
LEMMA EntryRead ==
    ASSUME RInv, ~Idle, NEW j \in 1..Len(spec.entities_sync)
    PROVE  LET raw == doc.egress_syncs[1].entities_sync[j]
               et  == spec.entities_sync[j]
           IN  /\ j \in 1..Len(doc.egress_syncs[1].entities_sync)
               /\ Len(raw.parent_edges) \in Nat
               /\ et.parent_edges = [i \in 1..Len(raw.parent_edges) |-> UnmarshalParentEdge(raw.parent_edges[i])]
  <1> DEFINE e == doc.egress_syncs[1]
             raw == e.entities_sync[j]
             read == [i \in 1..Len(e.entities_sync) |-> UnmarshalEntityType(e.entities_sync[i])]
  <1>1. spec = Unmarshal(e) /\ world \in Worlds /\ doc \in DocsFor(world)
    BY DEF RInv, Installed, Documented
  <1>2. e = [f \in DOMAIN e |-> e[f]] /\ "entities_sync" \in DOMAIN e /\ Len(e.entities_sync) \in Nat
    BY <1>1, DocAssumption
  <1>3. spec = [e EXCEPT !.entities_sync = read]  BY <1>1 DEF Unmarshal
  <1>4. spec.entities_sync = read
    <2> HIDE DEF e, read
    <2> QED  BY <1>2, <1>3
  <1>5. Len(read) = Len(e.entities_sync)  BY <1>2
  <1>6. j \in 1..Len(e.entities_sync)  BY <1>4, <1>5
  <1>7. spec.entities_sync[j] = UnmarshalEntityType(raw)  BY <1>4, <1>6
  <1>8. /\ raw = [f \in DOMAIN raw |-> raw[f]]
        /\ {"name", "parent_edges", "reference_edges", "hierarchical"} \subseteq DOMAIN raw
        /\ Len(raw.parent_edges) \in Nat
    BY <1>1, <1>6, DocAssumption
  <1> DEFINE pes == [i \in 1..Len(raw.parent_edges) |-> UnmarshalParentEdge(raw.parent_edges[i])]
  <1> HIDE DEF raw
  <1>9. \E refs : UnmarshalEntityType(raw) = [raw EXCEPT !.parent_edges = pes, !.reference_edges = refs]
    BY DEF UnmarshalEntityType
  <1>10. PICK refs : UnmarshalEntityType(raw) = [raw EXCEPT !.parent_edges = pes, !.reference_edges = refs]
    BY <1>9
  <1> HIDE DEF pes
  <1>11. [raw EXCEPT !.parent_edges = pes, !.reference_edges = refs].parent_edges = pes
    BY <1>8
  <1>12. spec.entities_sync[j].parent_edges = pes  BY <1>7, <1>10, <1>11
  <1> QED  BY <1>6, <1>8, <1>12 DEF raw, pes

\* Every parent edge of an installed declaration finds the owner, so a type has
\* one at most.
LEMMA EdgesFind ==
    ASSUME RInv, ~Idle, NEW j \in 1..Len(spec.entities_sync)
    PROVE  /\ Len(spec.entities_sync[j].parent_edges) \in Nat
           /\ \A i \in 1..Len(spec.entities_sync[j].parent_edges) :
                 LET pe == spec.entities_sync[j].parent_edges[i]
                 IN  /\ finds(pe) /\ pe = [f \in {"edge", "direction", "owner_precedence"} |-> pe[f]]
                     /\ pe.owner_precedence \in Seq(STRING)
           /\ \A i, l \in 1..Len(spec.entities_sync[j].parent_edges) : i = l
  <1> DEFINE raw == doc.egress_syncs[1].entities_sync[j]
             et == spec.entities_sync[j]
             n == Len(raw.parent_edges)
             syncs == [i \in 1..Len(doc.egress_syncs) |-> Unmarshal(doc.egress_syncs[i])]
  <1>1. /\ j \in 1..Len(doc.egress_syncs[1].entities_sync) /\ n \in Nat
        /\ et.parent_edges = [i \in 1..n |-> UnmarshalParentEdge(raw.parent_edges[i])]
    BY EntryRead
  <1>2. Len(et.parent_edges) = n  BY <1>1
  <1>3. accepted /\ spec = Unmarshal(doc.egress_syncs[1]) /\ world \in Worlds /\ doc \in DocsFor(world)
    BY DEF RInv, Installed, Documented
  <1>4. Len(doc.egress_syncs) \in Nat \ {0}  BY <1>3, DocAssumption
  <1>5. validateEgressSyncs(syncs)  BY <1>3 DEF accepted, ValidateManifest
  <1>6. Len(syncs) = Len(doc.egress_syncs) /\ 1 \in 1..Len(syncs) /\ syncs[1] = spec  BY <1>3, <1>4
  <1> HIDE DEF syncs
  <1>7. validateEgressSync(spec)  BY <1>5, <1>6 DEF validateEgressSyncs
  <1>8. \A i \in 1..n : isAddressableEdgeName(et.parent_edges[i].edge)
    BY <1>2, <1>7 DEF validateEgressSync, validateEgressEntityType
  <1>9. \A i \in 1..n : UnmarshalParentEdge(raw.parent_edges[i]) # Refused
    <2>1. parsed(doc.egress_syncs[1].entities_sync)
      <3>1. 1 \in 1..Len(doc.egress_syncs)  BY <1>4
      <3> QED  BY <1>3, <3>1 DEF accepted, Parse
    <2> QED  BY <1>1, <2>1 DEF parsed
  <1>10. \A i \in 1..n : authored(world, raw.parent_edges[i])
    BY <1>1, <1>3, AuthorAssumption
  <1>11. ASSUME NEW i \in 1..n
         PROVE  LET pe == et.parent_edges[i]
                IN  /\ finds(pe) /\ pe = [f \in {"edge", "direction", "owner_precedence"} |-> pe[f]]
                    /\ pe.owner_precedence \in Seq(STRING)
    <2>1. et.parent_edges[i] = UnmarshalParentEdge(raw.parent_edges[i])  BY <1>1
    <2>2. isAddressableEdgeName(UnmarshalParentEdge(raw.parent_edges[i]).edge)  BY <1>8, <2>1
    <2>3. finds(et.parent_edges[i]) /\ et.parent_edges[i].owner_precedence \in Seq(STRING)
      BY <1>3, <1>9, <1>10, <2>1, <2>2, AcceptedEdgeFinds
    <2> QED  BY <1>9, <2>1, <2>3, EdgeFields
  <1>12. \A i, l \in 1..n : i = l
    <2> DEFINE names == [i \in 1..n |-> et.parent_edges[i].edge]
    <2>1. Distinct(names)  BY <1>2, <1>7 DEF validateEgressSync, validateEgressEntityType
    <2>2. Len(names) = n  BY <1>1
    <2>3. \A i \in 1..n : names[i] = storedName  BY <1>11 DEF finds
    <2> HIDE DEF names
    <2> QED  BY <2>1, <2>2, <2>3 DEF Distinct
  <1> QED  BY <1>1, <1>2, <1>11, <1>12

\* So does the edge that a type is walked along.
LEMMA HierarchyFinds ==
    ASSUME RInv, ~Idle, NEW j \in 1..Len(spec.entities_sync), HierarchyEdge(spec.entities_sync[j]) # NoEdge
    PROVE  finds(HierarchyEdge(spec.entities_sync[j]))
  <1> DEFINE et == spec.entities_sync[j]
             pe == et.parent_edges[1]
             walkedAlong == [pe EXCEPT !.direction = NormalizeDirection(@)]
  <1>1. Len(et.parent_edges) = 1 /\ HierarchyEdge(et) = walkedAlong  BY DEF HierarchyEdge
  <1>2. finds(pe) /\ pe = [f \in {"edge", "direction", "owner_precedence"} |-> pe[f]]
    <2>1. \A i \in 1..Len(spec.entities_sync[j].parent_edges) :
             LET edge == spec.entities_sync[j].parent_edges[i]
             IN  finds(edge) /\ edge = [f \in {"edge", "direction", "owner_precedence"} |-> edge[f]]
      BY EdgesFind
    <2>2. 1 \in 1..Len(et.parent_edges)  BY <1>1
    <2> QED  BY <2>1, <2>2
  <1>3. walkedAlong.edge = pe.edge /\ walkedAlong.direction = NormalizeDirection(pe.direction)
    BY <1>2
  <1> HIDE DEF walkedAlong
  <1>4. NormalizeDirection(NormalizeDirection(pe.direction)) = NormalizeDirection(pe.direction)
    BY DEF NormalizeDirection
  <1> QED  BY <1>1, <1>2, <1>3, <1>4 DEF finds, EffectiveDirection

-----------------------------------------------------------------------------
\* A clean run is whole: what a run has been through.

\* A record is held with the owners that an entry for its type sends, unless
\* that entry lets one value overwrite another.
SentInv ==
    \A r \in pushed : \E j \in 1..Len(spec.entities_sync) :
        /\ typeOf[r] = spec.entities_sync[j].name
        /\ ~collides(spec.entities_sync[j]) => external[r].owner = ownersSent(spec.entities_sync[j], r)

\* The walk began at the roots, and the children of what it is through with
\* are up or behind it.
seen == walked \cup level
walksDown(et) ==
    HierarchyEdge(et) # NoEdge /\ seen # {} =>
        /\ roots(et) \subseteq seen
        /\ \A r \in walked \ level : children(et, {r}) \subseteq seen
WalkInv ==
    lane = "entities" /\ k <= Len(spec.entities_sync) => walksDown(spec.entities_sync[k])

\* As long as nothing failed, what the run has been through is held.
entryDone(j) == lane \in {"relationships", "none"} \/ (lane = "entities" /\ j < k)
CleanInv ==
    phase = "running" /\ clean =>
        /\ lane = "entities" => walked \subseteq pushed
        /\ \A j \in 1..Len(spec.entities_sync) :
              entryDone(j) => Rows(spec.entities_sync[j].name) \subseteq pushed

WInv == SentInv /\ WalkInv /\ CleanInv

\* A walk that has nothing more to bring up has been through every row.
LEMMA WalkIsWhole ==
    ASSUME RInv, WalkInv, lane = "entities", k <= Len(spec.entities_sync),
           level \subseteq walked, nextLevel(spec.entities_sync[k]) = {}
    PROVE  Rows(spec.entities_sync[k].name) \subseteq walked
  <1> DEFINE et == spec.entities_sync[k]
             S == Rows(et.name) \ walked
  <1>1. ~Idle /\ Len(spec.entities_sync) \in Nat /\ k \in Nat \ {0}
    BY LaneIsRun, EntriesCounted DEF RInv, TypeOK
  <1>2. k \in 1..Len(spec.entities_sync)  BY <1>1
  <1>3. CASE HierarchyEdge(et) = NoEdge
    BY <1>3 DEF nextLevel
  <1>4. CASE HierarchyEdge(et) # NoEdge
    <2>1. finds(HierarchyEdge(et))  BY <1>1, <1>2, <1>4, HierarchyFinds
    <2> SUFFICES ASSUME S # {} PROVE FALSE  OBVIOUS
    <2>2. PICK r \in S : ownersOf[r] \cap S = {}
      <3>1. S \in SUBSET Record  BY DEF Rows
      <3> QED  BY <3>1, ForestAssumption
    <2>3. r \in Rows(et.name) /\ r \in Record /\ r \notin walked /\ ownersOf[r] \cap Rows(et.name) \subseteq walked
      BY <2>2 DEF Rows
    <2>4. CASE walked = {}
      <3>1. roots(et) = {}  BY <1>4, <2>4 DEF nextLevel
      <3> QED  BY <2>3, <2>4, <3>1 DEF roots
    <2>5. CASE walked # {}
      <3>1. children(et, level) \subseteq walked  BY <1>4, <2>5 DEF nextLevel
      <3>2. seen = walked /\ seen # {}  BY <2>5 DEF seen
      <3>3. roots(et) \subseteq walked /\ \A q \in walked \ level : children(et, {q}) \subseteq walked
        BY <1>4, <3>2 DEF WalkInv, walksDown
      <3>4. PICK o \in ownersOf[r] : o \in Rows(et.name)  BY <2>3, <3>3 DEF roots
      <3>5. o \in walked  BY <2>3, <3>4
      <3>6. CASE o \in level
        BY <2>1, <2>3, <3>1, <3>4, <3>6 DEF children
      <3>7. CASE o \notin level
        <4>1. r \in children(et, {o})  BY <2>1, <2>3, <3>4 DEF children
        <4> QED  BY <2>3, <3>3, <3>5, <3>7, <4>1
      <3> QED  BY <3>6, <3>7
    <2> QED  BY <2>4, <2>5
  <1> QED  BY <1>3, <1>4

\* Records written for an entry carry the owners that entry sends.
LEMMA WriteKeepsSent ==
    ASSUME RInv, SentInv, NEW j \in 1..Len(spec.entities_sync), NEW rows,
           rows \subseteq Rows(spec.entities_sync[j].name), NEW refs \in BOOLEAN,
           write(spec.entities_sync[j], rows, refs), spec' = spec, world' = world
    PROVE  SentInv' /\ pushed' = pushed \cup rows
  <1> DEFINE et == spec.entities_sync[j]
  <1>1. PICK cut \in BOOLEAN :
            /\ cut => collides(et)
            /\ \A r \in pushed' : IF r \in rows THEN external'[r] = asSent(et, r, refs, cut)
                                  ELSE external'[r] = external[r]
    BY WriteKeepsRefs
  <1>2. pushed' = pushed \cup rows  BY WriteKeepsRefs
  <1>3. \A i, r : /\ ownersSent(spec.entities_sync[i], r)' = ownersSent(spec.entities_sync[i], r)
                 /\ collides(spec.entities_sync[i])' = collides(spec.entities_sync[i])
    BY DEF ownersSent, counted, finds, storedName, collides
  <1>4. ASSUME NEW r \in pushed'
        PROVE  \E i \in 1..Len(spec.entities_sync) :
                  /\ typeOf[r] = spec.entities_sync[i].name
                  /\ ~collides(spec.entities_sync[i]) => external'[r].owner = ownersSent(spec.entities_sync[i], r)
    <2>1. CASE r \in rows
      <3> DEFINE flag == refs /\ et.reference_edges # <<>>
                 owner == IF cut THEN {} ELSE ownersSent(et, r)
      <3>1. external'[r] = [owner |-> owner, refs |-> flag]  BY <1>1, <2>1 DEF asSent
      <3> HIDE DEF flag, owner
      <3>2. external'[r].owner = owner  BY <3>1
      <3>3. typeOf[r] = et.name  BY <2>1 DEF Rows
      <3> QED  BY <1>1, <3>2, <3>3 DEF owner
    <2>2. CASE r \notin rows
      <3>1. r \in pushed /\ external'[r] = external[r]  BY <1>1, <1>2, <2>2
      <3> QED  BY <3>1 DEF SentInv
    <2> QED  BY <2>1, <2>2
  <1>5. ASSUME NEW r \in pushed'
        PROVE  (\E i \in 1..Len(spec.entities_sync) :
                  /\ typeOf[r] = spec.entities_sync[i].name
                  /\ ~collides(spec.entities_sync[i]) => external[r].owner = ownersSent(spec.entities_sync[i], r))'
    BY <1>3, <1>4
  <1> QED  BY <1>2, <1>5, Zenon DEF SentInv

\* What the walk does not write keeps the records as they were sent.
LEMMA UnwrittenKeepsSent ==
    ASSUME SentInv, UNCHANGED <<spec, world, external>>
    PROVE  SentInv'
  <1>1. \A i, r : /\ ownersSent(spec.entities_sync[i], r)' = ownersSent(spec.entities_sync[i], r)
                 /\ collides(spec.entities_sync[i])' = collides(spec.entities_sync[i])
    BY DEF ownersSent, counted, finds, storedName, collides
  <1>2. pushed' = pushed  BY DEF pushed
  <1>3. ASSUME NEW r \in pushed'
        PROVE  (\E i \in 1..Len(spec.entities_sync) :
                  /\ typeOf[r] = spec.entities_sync[i].name
                  /\ ~collides(spec.entities_sync[i]) => external[r].owner = ownersSent(spec.entities_sync[i], r))'
    <2>1. PICK i \in 1..Len(spec.entities_sync) :
              /\ typeOf[r] = spec.entities_sync[i].name
              /\ ~collides(spec.entities_sync[i]) => external[r].owner = ownersSent(spec.entities_sync[i], r)
      BY <1>2 DEF SentInv
    <2> QED  BY <1>1, <2>1
  <1> QED  BY <1>3, Zenon DEF SentInv

LEMMA InitKeepsWInv ==
    ASSUME Init
    PROVE  WInv
  <1>1. pushed = {} /\ lane = "none" /\ phase = "uploaded"  BY DEF Init, pushed
  <1> QED  BY <1>1 DEF WInv, SentInv, WalkInv, CleanInv

\* The next level of a walk: the roots, or the children of the level before.
LEMMA NextLevelKeepsWInv ==
    ASSUME RInv, WInv, NextLevel
    PROVE  WInv'
  <1> DEFINE et == spec.entities_sync[k]
  <1>1. /\ UNCHANGED <<world, spec, phase, lane, k, walked, clean, external>> /\ pushed' = pushed
        /\ lane = "entities" /\ k <= Len(spec.entities_sync)
        /\ level \subseteq walked /\ level' = nextLevel(et)
    BY DEF NextLevel, declaration, externalVars, pushed
  <1>2. SentInv'  BY <1>1, UnwrittenKeepsSent DEF WInv
  <1>3. CleanInv'  BY <1>1 DEF WInv, CleanInv, entryDone, Rows
  <1>4. walksDown(et)'
    <2>1. /\ HierarchyEdge(et)' = HierarchyEdge(et) /\ roots(et)' = roots(et)
          /\ \A rows : children(et, rows)' = children(et, rows)
      BY <1>1 DEF HierarchyEdge, roots, children, finds, storedName, Rows
    <2> SUFFICES ASSUME HierarchyEdge(et) # NoEdge
                 PROVE  /\ roots(et) \subseteq seen'
                        /\ \A r \in walked' \ level' : children(et, {r}) \subseteq seen'
      BY <2>1 DEF walksDown
    <2>2. CASE walked = {}
      BY <1>1, <2>2 DEF nextLevel, seen
    <2>3. CASE walked # {}
      <3>1. children(et, level) \subseteq walked \cup level'  BY <1>1, <2>3 DEF nextLevel
      <3>2. seen = walked /\ seen # {} /\ walked \subseteq seen' /\ level' \subseteq seen'
        BY <1>1, <2>3 DEF seen
      <3>3. roots(et) \subseteq walked /\ \A r \in walked \ level : children(et, {r}) \subseteq walked
        BY <1>1, <3>2 DEF WInv, WalkInv, walksDown
      <3>4. \A r \in level : children(et, {r}) \subseteq children(et, level)  BY DEF children
      <3> QED  BY <1>1, <3>1, <3>2, <3>3, <3>4
    <2> QED  BY <2>2, <2>3
  <1> QED  BY <1>1, <1>2, <1>3, <1>4 DEF WInv, WalkInv

LEMMA PushBatchKeepsWInv ==
    ASSUME RInv, WInv, PushBatch
    PROVE  WInv'
  <1> DEFINE et == spec.entities_sync[k]
             due == level \ walked
             size == Min({EffectiveBatchSize(spec), Cardinality(due)})
  <1>1. PICK rows \in kSubset(size, due) :
            LET good == {r \in rows : writable(et, r)}
            IN  /\ \E bad \in {{}} \cup {{r} : r \in good} :
                      /\ write(et, good \ bad, TRUE)
                      /\ clean' = (clean /\ bad = {} /\ good = rows)
                /\ walked' = walked \cup rows
    BY DEF PushBatch
  <1> DEFINE good == {r \in rows : writable(et, r)}
  <1>2. PICK bad : write(et, good \ bad, TRUE) /\ clean' = (clean /\ bad = {} /\ good = rows)
    BY <1>1
  <1>3. /\ UNCHANGED <<world, spec, phase, lane, k, level>>
        /\ lane = "entities" /\ k <= Len(spec.entities_sync)
    BY DEF PushBatch, declaration
  <1>4. k \in 1..Len(spec.entities_sync)
    <2>1. ~Idle /\ Len(spec.entities_sync) \in Nat /\ k \in Nat \ {0}
      BY <1>3, LaneIsRun, EntriesCounted DEF RInv, TypeOK
    <2> QED  BY <1>3, <2>1
  <1>5. rows \subseteq due  BY <1>1 DEF kSubset
  <1> DEFINE wrote == good \ bad
  <1>6. wrote \subseteq Rows(et.name)  BY <1>3, <1>5 DEF RInv, LevelInv
  <1>7. write(et, wrote, TRUE) /\ TRUE \in BOOLEAN  BY <1>2
  <1>8. clean' => clean /\ wrote = rows  BY <1>2
  <1> HIDE DEF wrote, good, size
  <1>9. SentInv' /\ pushed' = pushed \cup wrote
    BY <1>3, <1>4, <1>6, <1>7, WriteKeepsSent DEF WInv
  <1>10. walked' = walked \cup rows  BY <1>1
  <1>11. CleanInv'
    BY <1>3, <1>8, <1>9, <1>10 DEF WInv, CleanInv, entryDone, Rows
  <1>12. walksDown(et)'
    <2>1. /\ HierarchyEdge(et)' = HierarchyEdge(et) /\ roots(et)' = roots(et)
          /\ \A rs : children(et, rs)' = children(et, rs)
      BY <1>3 DEF HierarchyEdge, roots, children, finds, storedName, Rows
    <2>2. seen' = seen /\ walked' \ level' = walked \ level  BY <1>3, <1>5, <1>10 DEF seen
    <2> QED  BY <1>3, <2>1, <2>2 DEF WInv, WalkInv, walksDown
  <1> QED  BY <1>3, <1>9, <1>11, <1>12 DEF WInv, WalkInv

\* The other steps of a run.
LEMMA RunKeepsWInv ==
    ASSUME RInv, WInv, PushAnchor \/ OntologyDone \/ TypeDone \/ EntitiesDone \/ PushRule \/ RelationshipsDone
                       \/ RunEnds
    PROVE  WInv'
  <1>1. UNCHANGED <<world, spec, external>> /\ pushed' = pushed
    BY DEF PushAnchor, OntologyDone, TypeDone, EntitiesDone, PushRule, RelationshipsDone, RunEnds, externalVars,
       declaration, pushed
  <1>2. SentInv'  BY <1>1, UnwrittenKeepsSent DEF WInv
  <1>3. CASE PushAnchor
    BY <1>1, <1>2, <1>3 DEF PushAnchor, WInv, WalkInv, CleanInv, entryDone
  <1>4. CASE OntologyDone
    <2>1. lane' = "entities" /\ k' = 1 /\ walked' = {} /\ level' = {}  BY <1>4 DEF OntologyDone, advance
    <2>2. seen' = {}  BY <2>1 DEF seen
    <2>3. WalkInv'  BY <2>2 DEF WalkInv, walksDown
    <2>4. CleanInv'  BY <2>1 DEF CleanInv, entryDone
    <2> QED  BY <1>2, <2>3, <2>4 DEF WInv
  <1>5. CASE TypeDone
    <2>1. /\ lane = "entities" /\ k <= Len(spec.entities_sync) /\ UNCHANGED <<phase, lane, clean>>
          /\ level \subseteq walked /\ nextLevel(spec.entities_sync[k]) = {}
          /\ k' = k + 1 /\ walked' = {} /\ level' = {}
      BY <1>5 DEF TypeDone
    <2>2. Rows(spec.entities_sync[k].name) \subseteq walked  BY <2>1, WalkIsWhole DEF WInv
    <2>3. seen' = {}  BY <2>1 DEF seen
    <2>4. WalkInv'  BY <2>3 DEF WalkInv, walksDown
    <2>5. k \in Nat  BY DEF RInv, TypeOK
    <2>6. CleanInv'
      <3> SUFFICES ASSUME phase' = "running", clean', NEW j \in 1..Len(spec.entities_sync), j < k + 1
                   PROVE  Rows(spec.entities_sync[j].name) \subseteq pushed
        BY <1>1, <2>1 DEF CleanInv, entryDone, Rows
      <3>1. walked \subseteq pushed /\ \A i \in 1..Len(spec.entities_sync) : i < k => Rows(spec.entities_sync[i].name) \subseteq pushed
        BY <2>1 DEF WInv, CleanInv, entryDone
      <3>2. j = k \/ j < k  BY <2>5
      <3> QED  BY <2>2, <3>1, <3>2
    <2> QED  BY <1>2, <2>4, <2>6 DEF WInv
  <1>6. CASE EntitiesDone
    <2>1. /\ lane = "entities" /\ k > Len(spec.entities_sync) /\ phase' = phase
          /\ lane' \in {"relationships", "none"} /\ (clean' => clean)
      BY <1>6 DEF EntitiesDone, advance
    <2>2. Len(spec.entities_sync) \in Nat /\ k \in Nat
      BY <2>1, LaneIsRun, EntriesCounted DEF RInv, TypeOK
    <2>3. \A j \in 1..Len(spec.entities_sync) : j < k  BY <2>1, <2>2
    <2>4. CleanInv'  BY <1>1, <2>1, <2>3 DEF WInv, CleanInv, entryDone, Rows
    <2> QED  BY <1>2, <2>1, <2>4 DEF WInv, WalkInv
  <1>7. CASE PushRule
    BY <1>1, <1>2, <1>7 DEF PushRule, WInv, WalkInv, CleanInv, entryDone, Rows
  <1>8. CASE RelationshipsDone
    BY <1>1, <1>2, <1>8 DEF RelationshipsDone, advance, WInv, WalkInv, CleanInv, entryDone, Rows
  <1>9. CASE RunEnds
    <2>1. phase' = "idle" /\ UNCHANGED <<lane, k, walked, level>>  BY <1>9 DEF RunEnds, runVars
    <2>2. lane = "none"  BY <1>9 DEF RunEnds
    <2> QED  BY <1>2, <2>1, <2>2 DEF WInv, WalkInv, CleanInv
  <1> QED  BY <1>3, <1>4, <1>5, <1>6, <1>7, <1>8, <1>9

\* A step outside the run.
LEMMA IdleKeepsWInv ==
    ASSUME RInv, WInv, UNCHANGED <<world, spec, phase, lane, k, walked, level, clean>>,
           pushed \subseteq pushed', SentInv'
    PROVE  WInv'
  <1>1. WalkInv'
    BY DEF WInv, WalkInv, walksDown, seen, HierarchyEdge, roots, children, finds, storedName, Rows
  <1>2. CleanInv'  BY DEF WInv, CleanInv, entryDone, Rows
  <1> QED  BY <1>1, <1>2 DEF WInv

LEMMA NextKeepsWInv ==
    ASSUME RInv, WInv, [Next]_vars
    PROVE  WInv'
  <1>1. CASE UNCHANGED vars \/ \E i \in Ids : Deliver(i)
    <2>1. UNCHANGED <<world, spec, phase, lane, k, walked, level, clean, external>> /\ pushed' = pushed
      BY <1>1 DEF vars, Deliver, declaration, runVars, externalVars, pushed
    <2>2. SentInv'  BY <2>1, UnwrittenKeepsSent DEF WInv
    <2> QED  BY <2>1, <2>2, IdleKeepsWInv
  <1>2. CASE Upload
    <2>1. lane = "none" /\ lane' = "none" /\ pushed' = {} /\ phase' # "running"
      BY <1>2 DEF Upload, runVars, externalVars, RInv, Untouched, Idle, pushed
    <2> QED  BY <2>1 DEF WInv, SentInv, WalkInv, CleanInv
  <1>3. CASE StartRun
    <2>1. UNCHANGED <<world, spec, external>> /\ lane' = "ontology"
      BY <1>3 DEF StartRun, declaration, externalVars
    <2>2. SentInv'  BY <2>1, UnwrittenKeepsSent DEF WInv
    <2> QED  BY <2>1, <2>2 DEF WInv, WalkInv, CleanInv, entryDone
  <1>4. CASE Run
    BY <1>4, RunKeepsWInv, NextLevelKeepsWInv, PushBatchKeepsWInv DEF Run
  <1>5. ASSUME NEW j \in 1..Len(spec.entities_sync), NEW r \in Record, EventPush(j, r) PROVE WInv'
    <2> DEFINE rows == {r}
    <2>1. /\ UNCHANGED <<world, spec, phase, lane, k, walked, level, clean>>
          /\ rows \subseteq Rows(spec.entities_sync[j].name)
          /\ write(spec.entities_sync[j], rows, FALSE) /\ FALSE \in BOOLEAN
      BY <1>5 DEF EventPush, declaration, runVars
    <2> HIDE DEF rows
    <2>2. SentInv' /\ pushed' = pushed \cup rows  BY <2>1, WriteKeepsSent DEF WInv
    <2> QED  BY <2>1, <2>2, IdleKeepsWInv
  <1> QED  BY <1>1, <1>2, <1>3, <1>4, <1>5 DEF Next

LEMMA LeastNumber ==
    ASSUME NEW n \in Nat, NEW S, S \subseteq 1..n, S # {}
    PROVE  Min(S) \in S /\ \A y \in S : Min(S) <= y
  <1> DEFINE R == OpToRel(<, Nat)
  <1>1. IsWellFoundedOn(R, Nat)  BY NatLessThanWellFounded
  <1>2. \A x, y \in Nat : <<y, x>> \in R <=> y < x
    BY DEF OpToRel
  <1>3. S \subseteq Nat  OBVIOUS
  <1> HIDE DEF R
  <1>4. PICK m \in S : \A y \in S : ~(<<y, m>> \in R)  BY <1>1, <1>3, WFMin
  <1>5. ASSUME NEW y \in S PROVE m <= y
    <2>1. ~(y < m) /\ y \in Nat /\ m \in Nat  BY <1>2, <1>3, <1>4
    <2> QED  BY <2>1
  <1>6. \E x \in S : \A y \in S : x <= y  BY <1>5
  <1> QED  BY <1>6 DEF Min

\* Where the edge finds the owners, what counts is what the graph and the
\* declared precedence give.
LEMMA CountedIsHeld ==
    ASSUME NEW pe, NEW r, finds(pe), pe.owner_precedence \in Seq(STRING),
           external[r].owner = counted(pe, r)
    PROVE  ownerHeld(pe, r)
  <1> DEFINE listed == pe.owner_precedence
             n == Len(listed)
             present == {i \in 1..n : \E o \in ownersOf[r] : typeOf[o] = listed[i]}
             held == external[r].owner
  <1>1. held = {o \in ownersOf[r] : listed # <<>> => present # {} /\ typeOf[o] = listed[Min(present)]}
    BY DEF counted
  <1>2. n \in Nat  OBVIOUS
  <1>3. \A o : counts(pe, o) <=> listed = <<>> \/ \E i \in 1..n : typeOf[o] = listed[i]
    BY DEF counts, Elements
  <1>4. CASE listed = <<>>
    BY <1>1, <1>3, <1>4 DEF ownerHeld
  <1>5. CASE listed # <<>> /\ present = {}
    <2>1. held = {}  BY <1>1, <1>5
    <2>2. \A o \in ownersOf[r] : ~counts(pe, o)  BY <1>3, <1>5
    <2> QED  BY <2>1, <2>2 DEF ownerHeld
  <1>6. CASE listed # <<>> /\ present # {}
    <2> DEFINE a == Min(present)
    <2>1. a \in present /\ \A b \in present : a <= b  BY <1>2, <1>6, LeastNumber
    <2>2. a \in 1..n /\ held = {o \in ownersOf[r] : typeOf[o] = listed[a]}  BY <1>1, <1>6, <2>1
    <2>3. PICK p \in ownersOf[r] : typeOf[p] = listed[a]  BY <2>1
    <2>4. p \in held  BY <2>2, <2>3
    <2> HIDE DEF a, held
    <2>5. ASSUME NEW o \in ownersOf[r], counts(pe, o) PROVE o \in held \/ precedes(pe, p, o)
      <3>1. PICK b \in 1..n : typeOf[o] = listed[b]  BY <1>3, <1>6, <2>5
      <3>2. a <= b  BY <2>1, <3>1
      <3>3. CASE a = b  BY <2>2, <3>1, <3>3
      <3>4. CASE a < b  BY <2>2, <2>3, <3>1, <3>4 DEF precedes
      <3>5. a = b \/ a < b  BY <2>2, <3>2
      <3> QED  BY <3>3, <3>4, <3>5
    <2>6. \A o \in held : o \in ownersOf[r] /\ counts(pe, o)  BY <1>3, <2>2
    <2> QED  BY <2>4, <2>5, <2>6 DEF ownerHeld, held
  <1> QED  BY <1>4, <1>5, <1>6

\* What a run that nothing failed leaves behind.
LEMMA WInvIsWhole ==
    ASSUME RInv, WInv
    PROVE  CleanRunIsWhole
  <1> SUFFICES ASSUME phase = "running", lane = "none", clean,
                      NEW j \in 1..Len(spec.entities_sync), NEW r \in Rows(spec.entities_sync[j].name)
               PROVE  LET et == spec.entities_sync[j]
                      IN  /\ r \in pushed
                          /\ listedOnce(et.name) /\ ~collides(et) =>
                                \A i \in 1..Len(et.parent_edges) : ownerHeld(et.parent_edges[i], r)
    BY DEF CleanRunIsWhole
  <1> DEFINE et == spec.entities_sync[j]
  <1>1. r \in pushed  BY DEF WInv, CleanInv, entryDone
  <1>2. ASSUME listedOnce(et.name), ~collides(et), NEW i \in 1..Len(et.parent_edges)
        PROVE  ownerHeld(et.parent_edges[i], r)
    <2> DEFINE pe == et.parent_edges[i]
    <2>1. PICK l \in 1..Len(spec.entities_sync) :
              /\ typeOf[r] = spec.entities_sync[l].name
              /\ ~collides(spec.entities_sync[l]) => external[r].owner = ownersSent(spec.entities_sync[l], r)
      BY <1>1 DEF WInv, SentInv
    <2>2. l = j  BY <1>2, <2>1 DEF listedOnce, Rows
    <2>3. external[r].owner = ownersSent(et, r)  BY <1>2, <2>1, <2>2
    <2>4. ~Idle  BY DEF Idle
    <2>5. /\ finds(pe) /\ pe.owner_precedence \in Seq(STRING)
          /\ \A a, b \in 1..Len(et.parent_edges) : a = b
      BY <2>4, EdgesFind
    <2>6. ownersSent(et, r) = counted(pe, r)
      <3>1. \A a \in 1..Len(et.parent_edges) : a = i  BY <2>5
      <3>2. \A a \in 1..Len(et.parent_edges) : counted(et.parent_edges[a], r) = counted(pe, r)  BY <3>1
      <3> QED  BY <3>2 DEF ownersSent
    <2> HIDE DEF pe
    <2>7. ownerHeld(pe, r)  BY <2>3, <2>5, <2>6, CountedIsHeld
    <2> QED  BY <2>7 DEF pe
  <1> QED  BY <1>1, <1>2

\* For every graph whose containment has no cycle, with any number of owners of
\* a record, every accepted declaration, however its edges are spelled and
\* whatever precedence they declare, and every pattern of failures and fed
\* changes: a run that reports no failure has left every row of the declared
\* types in the external system.  Where the type is listed once and no edge is
\* called type_ref beside the reference to the type, each row is under the
\* owner the graph and the precedence give it.  [egress.go
\* isAddressableEdgeName, UnmarshalYAML, validateEgressEntityType,
\* validateOwnerPrecedence; types.go TypeRefKey]
THEOREM EgressCleanRunIsWhole == Spec => []CleanRunIsWhole
  <1>1. Init => WInv  BY InitKeepsWInv
  <1>2. RInv /\ WInv /\ [Next]_vars => WInv'  BY NextKeepsWInv
  <1>3. RInv /\ WInv => CleanRunIsWhole  BY WInvIsWhole
  <1> QED  BY <1>1, <1>2, <1>3, RInvHolds, PTL DEF Spec
==============================================================================
