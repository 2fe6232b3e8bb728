------------------------------ MODULE MetaModel ------------------------------
(***************************************************************************)
(* The definitions of the properties (semantic_layer/meta_model.py), how   *)
(* they are loaded (backend/api/ontology_api.py, innovation_api.py), and   *)
(* the limits and thresholds that follow from them                         *)
(* (analytics/thresholds.py).  A fragment is told by whether it has the    *)
(* shape asked for, and by the definition of each property it declares.    *)
(* The version is a hash of the graph, and stands for it.                  *)
(***************************************************************************)
EXTENDS Integers, Sequences, FiniteSets

CONSTANTS
    Uris,           \* IRIs of properties
    NameOf,         \* _local_name, on those: two IRIs may come down to one name
    Defined,        \* definitions: [min, max, danger, warn, direction]; -1 for none
    BuiltInLimit, BuiltInThreshold, BuiltInWarn,    \* by name
    HistoryKept, MaxLoads    \* the loads kept; a bound

\* every fallback threshold and warning is of a property that has a fallback limit
ASSUME MetaAssumption ==
    /\ IsFiniteSet(Uris) /\ DOMAIN NameOf = Uris /\ HistoryKept \in Nat /\ MaxLoads \in Nat
    /\ Defined \subseteq [min : Int, max : Int, danger : Int, warn : Int, direction : STRING]
    /\ DOMAIN BuiltInThreshold \cup DOMAIN BuiltInWarn \subseteq DOMAIN BuiltInLimit
    /\ \A n \in DOMAIN BuiltInThreshold : BuiltInThreshold[n] \in Int \X {"above", "below"}

VARIABLES
    graph,      \* the triples: <<IRI, predicate, value>>
    defs,       \* _properties: a definition per name
    bound,      \* whether the resolver has the registry
    loads,      \* _history, the newest first: whether each was accepted
    recorded,       \* <<version, definitions>>, as decisions recorded them (history)
    unclear,    \* a property was defined a second time, or a name had two IRIs (history)
    count

metaVars == <<graph, defs, bound, loads, recorded, unclear, count>>

PropertyNames == {NameOf[u] : u \in Uris}

Fragments == UNION {[S -> Defined] : S \in (SUBSET Uris) \ {{}}}

---------------------------------------------------------------------------
(* MetaModelRegistry *)

Predicates == {"min", "max", "danger", "warn", "direction"}

Triples(f) == {<<u, k, f[u][k]>> : u \in DOMAIN f, k \in Predicates}
                \ {<<u, k, -1>> : u \in DOMAIN f, k \in {"danger", "warn"}}

NamesIn(f) == {NameOf[u] : u \in DOMAIN f}

\* a definition replaces what was there under its name; of two IRIs with one
\* name, the one that comes last in the graph
Redefined(old, f) ==
    {new \in [DOMAIN old \cup NamesIn(f) -> Defined] :
        \A n \in DOMAIN new :
            IF n \in NamesIn(f) THEN \E u \in DOMAIN f : NameOf[u] = n /\ new[n] = f[u]
            ELSE new[n] = old[n]}

Unclear(old, f) ==
    \/ NamesIn(f) \cap DOMAIN old # {}
    \/ Cardinality(NamesIn(f)) < Cardinality(DOMAIN f)

CountLoad == count < MaxLoads /\ count' = count + 1

Cut(l) == SubSeq(l, 1, IF Len(l) < HistoryKept THEN Len(l) ELSE HistoryKept)

Merged(f) == graph \cup Triples(f)

\* load_turtle of a fragment that validate_fragment accepts
Load(f) ==
    /\ CountLoad
    /\ defs' \in Redefined(defs, f)
    /\ graph' = Merged(f)
    /\ loads' = Cut(<<TRUE>> \o loads)
    /\ unclear' = (unclear \/ Unclear(defs, f))
    /\ recorded' = recorded \cup {<<graph', defs'>>}
    /\ UNCHANGED bound

\* mutant: the triples are merged before they are judged
GraphMerged(f) == graph \cup Triples(f)

GraphRefused(f) == graph

\* and of one it rejects, which leaves a mark and is not cut
LoadRejected(f) ==
    /\ CountLoad
    /\ graph' = GraphRefused(f)
    /\ loads' = <<FALSE>> \o loads
    /\ UNCHANGED <<defs, bound, recorded, unclear>>

\* load_thresholds: the file is loaded into a registry of its own, which takes
\* the place of this one, its history included; a file that is rejected, or
\* missing, changes nothing
Replace(f) ==
    /\ CountLoad
    /\ defs' \in Redefined(<< >>, f)
    /\ graph' = Triples(f)
    /\ loads' = <<TRUE>> /\ bound' = TRUE
    /\ unclear' = (unclear \/ Unclear(<< >>, f))
    /\ recorded' = recorded \cup {<<graph', defs'>>}

DefsCleared == << >>

\* reset, and the process starting again
Reset ==
    /\ CountLoad
    /\ graph' = {} /\ defs' = DefsCleared /\ loads' = << >>
    /\ recorded' = recorded \cup {<<graph', defs'>>}
    /\ UNCHANGED <<bound, unclear>>

---------------------------------------------------------------------------
(* ThresholdResolver *)

\* autobind
Bind == ~bound /\ bound' = TRUE /\ UNCHANGED <<graph, defs, loads, recorded, unclear, count>>

Read == IF bound THEN defs ELSE << >>

FromOntology(n) == n \in DOMAIN Read

\* limit_for; the empty set for none
Limit(n) ==
    IF FromOntology(n) THEN {<<Read[n].min, Read[n].max>>}
    ELSE IF n \in DOMAIN BuiltInLimit THEN {BuiltInLimit[n]} ELSE {}

\* DIRECTION_ALIAS: whatever it does not know is above
Alias(d) == IF d \in {"low", "below"} THEN "below" ELSE "above"

Dangerous(n) == n \in DOMAIN Read /\ Read[n].danger # -1

\* threshold_for
Threshold(n) ==
    IF Dangerous(n) THEN {<<Read[n].danger, Alias(Read[n].direction)>>}
    ELSE IF n \in DOMAIN BuiltInThreshold THEN {BuiltInThreshold[n]} ELSE {}

\* warn_for
Warn(n) ==
    IF n \in DOMAIN Read /\ Read[n].warn # -1 THEN {Read[n].warn}
    ELSE IF n \in DOMAIN BuiltInWarn THEN {BuiltInWarn[n]} ELSE {}

\* resolve_source
Source(n) ==
    IF n \in DOMAIN Read THEN "ontology"
    ELSE IF n \in DOMAIN BuiltInThreshold \cup DOMAIN BuiltInLimit THEN "fallback" ELSE "unknown"

---------------------------------------------------------------------------
MetaInit ==
    /\ graph = {} /\ defs = << >> /\ bound = FALSE /\ loads = << >>
    /\ recorded = {<<{}, << >>>>} /\ unclear = FALSE /\ count = 0

MetaNext ==
    \/ \E f \in Fragments : Load(f) \/ LoadRejected(f) \/ Replace(f)
    \/ Reset \/ Bind

MetaSpec == MetaInit /\ [][MetaNext]_metaVars

---------------------------------------------------------------------------
(* Properties *)

\* Every definition in force is in the graph, under an IRI of its name: what
\* the API serialises has all the resolver goes by.
MetaTypeOK ==
    /\ DOMAIN defs \subseteq PropertyNames
    /\ \A n \in DOMAIN defs : \E u \in Uris : NameOf[u] = n /\ Triples([v \in {u} |-> defs[n]]) \subseteq graph

\* The version a decision records tells the definitions it was made by, unless
\* a property was defined twice: the graph then holds both definitions, and
\* the version is the same whichever was the last.
VersionTells ==
    ~unclear => \A a, b \in recorded : a[1] = b[1] => a[2] = b[2]

\* Only what was accepted is ever judged by: a limit, a threshold or a warning
\* is of a definition the registry has, or of the built-in tables, and a
\* source called unknown has neither limit nor threshold.
ResolvedSomewhere ==
    \A n \in PropertyNames \cup DOMAIN BuiltInLimit :
        /\ Threshold(n) \subseteq Int \X {"above", "below"}
        /\ Source(n) = "ontology" => Limit(n) = {<<defs[n].min, defs[n].max>>}
        /\ Source(n) = "unknown" <=> Limit(n) = {} /\ Threshold(n) = {} /\ Warn(n) = {}
        /\ Limit(n) = {} => Threshold(n) = {}

\* A load that is rejected leaves the definitions and the graph, and so the
\* version, as they were.
RejectedChangesNothing ==
    [][Len(loads') > Len(loads) /\ ~Head(loads') => graph' = graph /\ defs' = defs]_metaVars

\* The definitions in force, the graph and the version tell the same, and a load
\* that is rejected touches none of them.
MetaModelTells ==
    /\ [](MetaTypeOK /\ VersionTells /\ ResolvedSomewhere)
    /\ RejectedChangesNothing
=============================================================================
