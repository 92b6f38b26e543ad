----------------------------- MODULE KitManifest -----------------------------
(***************************************************************************)
(* The kit manifest around its egress section (manifest/manifest.go), as   *)
(* operators: what Validate refuses before a kit is installed.  With it,   *)
(* the other end of a declared source binding, the mode that the           *)
(* connector's runtime makes of it and the bindings it starts with         *)
(* (connector/types.go, server.go).                                        *)
(*                                                                         *)
(* A locale key is [parses, dash]: whether it is a language tag, and       *)
(* whether it has a subtag.  A declared mode is [word, exact]: the word    *)
(* once it is trimmed and in lower case, and whether it was written so.  A *)
(* policy's suffix is a sequence of "a" (a lower-case letter), "0" (a      *)
(* digit), "-" and other characters.  A monitor carries, for each duration *)
(* it gives, whether it can be read as one.                                *)
(***************************************************************************)
EXTENDS EgressManifest

field(s, f) == [k \in 1..Len(s) |-> s[k][f]]

-----------------------------------------------------------------------------
\* Modelling mode, locale keys, prompt fragments.

NoModeling == [absent |-> TRUE]
IsValidModelingMode(mode) == mode \in {"typed", "hybrid"}
ModelingMode(m) == IF m.modeling = NoModeling \/ m.modeling.mode = "" THEN "typed" ELSE m.modeling.mode

\* Only a hybrid kit needs its physical types.
validateModeling(m) ==
    m.modeling # NoModeling =>
        /\ m.modeling.mode # "" => IsValidModelingMode(m.modeling.mode)
        /\ ModelingMode(m) = "hybrid" =>
              LET names == m.modeling.physical_types
              IN  /\ names # <<>> /\ "" \notin Elements(names) /\ Distinct(names)
                  /\ m.modeling.default_physical_type \in Elements(names)

\* A language without a region is refused.
validateLocaleKeys(keys) == \A key \in keys : key.parses /\ key.dash

IsValidPromptFragmentTarget(t) == t \in {"frontier", "knowledge", "analytics"}
validatePromptFragments(entries) ==
    \A k \in 1..Len(entries) : IsValidPromptFragmentTarget(entries[k].target) /\ entries[k].file # ""

-----------------------------------------------------------------------------
\* Policies and monitors.

kitPolicyIDSuffix(s) ==
    /\ Len(s) \in 3..42
    /\ Head(s) = "a" /\ Last(s) # "-"
    /\ Elements(s) \subseteq {"a", "0", "-"}

IsValidPolicyLevel(l) == l \in {"routing", "data"}
validateKitPolicies(entries) ==
    /\ \A k \in 1..Len(entries) :
          /\ kitPolicyIDSuffix(entries[k].id_suffix)
          /\ IsValidPolicyLevel(entries[k].level)
          /\ entries[k].name # "" /\ entries[k].expression # ""
    /\ Distinct(field(entries, "id_suffix"))

\* A threshold needs a bound; no method means zscore.
validateMonitors(monitors) ==
    \A k \in 1..Len(monitors) :
        LET mon == monitors[k]
        IN  /\ mon.entity_type # "" /\ mon.metric # ""
            /\ mon.method \in {"", "zscore", "threshold"}
            /\ mon.method = "threshold" => mon.bounds # {}
            /\ FALSE \notin mon.durations

-----------------------------------------------------------------------------
\* Source connectors.

\* Mutant: a mode is recognised however it is written.
MutAnyCase(mode) == mode.word \in {"poll", "webhook"}

isValidSourceMode(mode) == mode.exact /\ mode.word \in {"poll", "webhook"}

validateSourceBinding(b) ==
    /\ b.id # "" /\ b.external_system # "" /\ b.source_type # ""
    /\ \A k \in 1..Len(b.modes) : isValidSourceMode(b.modes[k])

\* Both kinds of sidecar resolve their image alike; here it need not be pinned.
validateSourceConnectors(conns) ==
    /\ \A k \in 1..Len(conns) :
          LET c == conns[k]
          IN  /\ c.name # "" /\ EffectiveImage(c) # ""
              /\ c.bindings # <<>>
              /\ \A j \in 1..Len(c.bindings) : validateSourceBinding(c.bindings[j])
              /\ Distinct(field(c.bindings, "id"))
    /\ Distinct(field(conns, "name"))

\* Mistyped keys are refused wherever the manifest has a struct.
Parse(m) == \A k \in 1..Len(m.egress_syncs) : parsed(m.egress_syncs[k].entities_sync)
ValidateManifest(m) ==
    /\ "" \notin {m.api_version, m.name, m.version, m.platform_version}
    /\ m.kind = "DomainKitManifest"
    /\ validateLocaleKeys(m.display_name) /\ validateLocaleKeys(m.description)
    /\ validatePromptFragments(m.prompt_fragments)
    /\ validateKitPolicies(m.policies)
    /\ validateSourceConnectors(m.source_connectors)
    /\ validateEgressSyncs([k \in 1..Len(m.egress_syncs) |-> Unmarshal(m.egress_syncs[k])])
    /\ validateMonitors(m.monitors)
    /\ validateModeling(m)

-----------------------------------------------------------------------------
\* The connector's side of a binding.

pollEnabled(mode) == mode \in {"poll", "both", ""}
webhookEnabled(mode) == mode \in {"webhook", "both"}
valid(mode) == mode \in {"", "poll", "webhook", "both"}

\* A word it does not know is passed over; without one it knows, it polls.
ModeFromStrings(modes) ==
    LET words == {modes[k].word : k \in 1..Len(modes)}
        poll == words \cap {"poll", "both"} # {}
        webhook == words \cap {"webhook", "both"} # {}
    IN  IF poll /\ webhook THEN "both" ELSE IF webhook THEN "webhook" ELSE "poll"

validateBindings(bindings) ==
    /\ \A k \in 1..Len(bindings) : bindings[k].id # "" /\ valid(bindings[k].mode)
    /\ Distinct(field(bindings, "id"))

\* The bindings a kit starts its connector with (external: the kit's code).
bindingsOf(c) ==
    [k \in 1..Len(c.bindings) |-> [id |-> c.bindings[k].id, mode |-> ModeFromStrings(c.bindings[k].modes)]]
=============================================================================
