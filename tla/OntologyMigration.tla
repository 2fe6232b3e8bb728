-------------------------- MODULE OntologyMigration --------------------------
(***************************************************************************)
(* plan_migration of semantic_layer/ontology_migration.py: from two        *)
(* versions of the ontology it tells whether what was observed under the   *)
(* first can be read under the second.  The versions of a factory follow   *)
(* one another; observations stay in the store and are never rewritten.    *)
(* An ontology is a function from the IRIs of its properties; both limits  *)
(* of a property are there, as the shape of the meta-model demands.  The   *)
(* code compares by local name, so that two IRIs with one name are one     *)
(* property to it, and a caller may allow what breaks.                     *)
(***************************************************************************)
EXTENDS Integers, FiniteSets

CONSTANTS
    Iris,           \* IRIs of properties
    Names,          \* their local names
    LocalName,      \* _local: from the one to the other
    Alike,          \* pairs of names that share a label or contain one another
    Definitions,    \* [unit, low, high]
    FirstOntology,  \* the version a factory begins with
    MaxVersionsPlanned, MaxStored    \* bounds

Ontologies == UNION {[S -> Definitions] : S \in SUBSET Iris}

\* minValue is not above maxValue, as in thresholds.ttl and vibration.ttl: some
\* value of a property is legal
ASSUME MigrationAssumption ==
    /\ LocalName \in [Iris -> Names] /\ Alike \subseteq Names \X Names
    /\ MaxVersionsPlanned \in Nat /\ MaxStored \in Nat
    /\ FirstOntology \in Ontologies
    /\ \A d \in Definitions : d.low \in Int /\ d.high \in Int /\ d.low <= d.high

VARIABLES
    ontology,   \* the version in force
    aligned,    \* the equivalences of the versions adopted so far
    observed,   \* observations: the property, its unit, the value
    plan,       \* the last plan: [old, new, axioms, forced, compatible]
    followed,   \* a history variable: each version in force was adopted without
                \* a loss that was allowed and without IRIs that share a name
    versions

migrationVars == <<ontology, aligned, observed, plan, followed, versions>>

---------------------------------------------------------------------------
(* snapshot and diff *)

NamesOf(graph) == {LocalName[u] : u \in DOMAIN graph}

Snapshot(graph, uriOf) ==
    [n \in NamesOf(graph) |->
        [uri |-> uriOf[n], unit |-> graph[uriOf[n]].unit,
         low |-> graph[uriOf[n]].low, high |-> graph[uriOf[n]].high]]

\* of several IRIs with one name the one the graph lists last remains
Snapshots(graph) ==
    {Snapshot(graph, uriOf) :
        uriOf \in {f \in [NamesOf(graph) -> DOMAIN graph] :
                      \A n \in NamesOf(graph) : LocalName[f[n]] = n}}

Removed(before, after) == DOMAIN before \ DOMAIN after
Added(before, after) == DOMAIN after \ DOMAIN before

\* mutant: the range may have changed with the name
SameUnit(d, e) == d.unit = e.unit

SameMeaning(d, e) == d.unit = e.unit /\ d.low = e.low /\ d.high = e.high

Candidates(before, after, p) ==
    {q \in Added(before, after) : <<p, q>> \in Alike /\ SameMeaning(before[p], after[q])}

Matched(before, after) == {p \in Removed(before, after) : Candidates(before, after, p) # {}}

\* _rename_candidates: one for each, the first the graph offers; two properties
\* may be given the same one
Renames(before, after) ==
    {f \in [Matched(before, after) -> Added(before, after)] :
        \A p \in Matched(before, after) : f[p] \in Candidates(before, after, p)}

Narrowed(d, e) == e.low > d.low \/ e.high < d.high

Breaking(before, after) ==
    \/ Removed(before, after) \ Matched(before, after) # {}
    \/ \E p \in DOMAIN before \cap DOMAIN after :
          before[p].unit # after[p].unit \/ Narrowed(before[p], after[p])

---------------------------------------------------------------------------
(* What the properties compare: IRIs, which is what queries name *)

\* No other property of the two versions has the local name of u.
Alone(old, new, u) == \A v \in DOMAIN old \cup DOMAIN new : LocalName[v] = LocalName[u] => v = u

\* Whether a value of u under the old version is a value of v under the new one.
Keeps(old, new, u, v) ==
    /\ v \in DOMAIN new /\ new[v].unit = old[u].unit
    /\ old[u].low .. old[u].high \subseteq new[v].low .. new[v].high

\* Whether the new version or the axioms given with it keep what u observed.
KeptBy(old, new, axioms, u) ==
    \/ Keeps(old, new, u, u)
    \/ \E v \in DOMAIN new : <<u, v>> \in axioms /\ Keeps(old, new, u, v)

---------------------------------------------------------------------------
KeepObservation(u, v) ==
    /\ Cardinality(observed) < MaxStored
    /\ u \in DOMAIN ontology /\ v \in ontology[u].low .. ontology[u].high
    /\ observed' = observed \cup {[property |-> u, unit |-> ontology[u].unit, value |-> v]}
    /\ UNCHANGED <<ontology, aligned, plan, followed, versions>>

\* plan_migration, and a compatible version is adopted with its axioms; forced is
\* allow_breaking
Plan(new, forced) ==
    /\ versions < MaxVersionsPlanned /\ versions' = versions + 1
    /\ \E before \in Snapshots(ontology), after \in Snapshots(new) :
       \E f \in Renames(before, after) :
          LET breaking == Breaking(before, after)
              axioms == {<<before[p].uri, after[f[p]].uri>> : p \in DOMAIN f}
          IN /\ plan' = [old |-> ontology, new |-> new, axioms |-> axioms, forced |-> forced,
                         compatible |-> forced \/ ~breaking]
             /\ IF forced \/ ~breaking
                THEN /\ ontology' = new /\ aligned' = aligned \cup axioms
                     /\ followed' = (/\ followed /\ ~breaking
                                     /\ \A u \in DOMAIN ontology : Alone(ontology, new, u))
                ELSE UNCHANGED <<ontology, aligned, followed>>
    /\ UNCHANGED observed

MigrationInit ==
    /\ ontology = FirstOntology /\ aligned = {} /\ observed = {} /\ versions = 0
    /\ followed = TRUE
    /\ plan = [old |-> << >>, new |-> << >>, axioms |-> {}, forced |-> FALSE, compatible |-> TRUE]

MigrationNext ==
    \/ \E u \in Iris : \E v \in UNION {d.low .. d.high : d \in Definitions} : KeepObservation(u, v)
    \/ \E new \in Ontologies, forced \in BOOLEAN : Plan(new, forced)

MigrationSpec == MigrationInit /\ [][MigrationNext]_migrationVars

---------------------------------------------------------------------------
(* Properties *)

\* Unless it was told to allow a loss, a plan is compatible only if every value
\* that was legal under a property is legal under the one of the same IRI or under
\* the one an axiom leads to, and it is blocked only for a loss: the list of changes
\* neither misses one nor makes one up.  A property that shares its local name
\* with another is left out: of the two the code sees one.
PlanIsExact ==
    /\ plan.compatible /\ ~plan.forced =>
          \A u \in DOMAIN plan.old :
              Alone(plan.old, plan.new, u) => KeptBy(plan.old, plan.new, plan.axioms, u)
    /\ ~plan.compatible =>
          /\ ~plan.forced
          /\ \E u \in DOMAIN plan.old :
                Alone(plan.old, plan.new, u) => ~KeptBy(plan.old, plan.new, plan.axioms, u)

\* However many versions followed, none of them a loss that was allowed and none
\* with a shared name, an observation can be read: the axioms lead from its
\* property to one of the version in force that has its unit and whose range
\* holds its value.
Reached(u) ==
    {v \in Iris : \A S \in SUBSET Iris :
        u \in S /\ (\A e \in aligned : e[1] \in S => e[2] \in S) => v \in S}

HistoryReadable ==
    followed =>
        \A o \in observed :
            \E v \in Reached(o.property) \cap DOMAIN ontology :
                o.unit = ontology[v].unit /\ o.value \in ontology[v].low .. ontology[v].high

\* The plan between two versions is exact, and history can be followed through all
\* the versions that were put in force.
HistoryFollows ==
    /\ PlanIsExact
    /\ HistoryReadable
=============================================================================
