-------------------------- MODULE FactoryFederation --------------------------
(***************************************************************************)
(* A property asked of several factories at once                           *)
(* (semantic_layer/cross_factory.py, backend/api/federation_api.py): the   *)
(* sites are registered, taken off and put on line while a query waits for *)
(* their stores, each of which answers or fails by itself.  One query is   *)
(* followed: two share nothing but the registry.  The stores belong to     *)
(* others: each puts its rows in an order of its own, and the coordinator  *)
(* compares what was written for the time as text, so that the two orders  *)
(* need not agree (offsets, formats, ties).  Values are left out.          *)
(***************************************************************************)
EXTENDS Integers, FiniteSets

CONSTANTS
    Sites,
    Terms,          \* names of properties, the sites' own and the canonical ones
    Alignments,     \* [local |-> canonical], as a site registers them
    WordIn,       \* <<word, term>>: the IRI of term has word in it
    Limits,         \* the limits of rows asked for
    Ranks,          \* places in an order of rows
    MaxRows, MaxMoves   \* bounds: rows stored, changes of the registry

ASSUME FederationAssumption ==
    /\ \A a \in Alignments : DOMAIN a \subseteq Terms /\ \A l \in DOMAIN a : a[l] \in Terms
    /\ WordIn \subseteq Terms \X Terms /\ Limits \subseteq Nat \ {0} /\ Ranks \subseteq Int
    /\ MaxRows \in Nat /\ MaxMoves \in Nat

VARIABLES
    site,       \* SiteRegistry: [align, online] of each registered site
    store,      \* the rows in the sites' stores
    query,      \* the query that is waiting: a set of one, or empty
    result,     \* the result of the last query, until the next is asked
    shuffled,   \* sites registered or removed since the query began (history)
    moves

federationVars == <<site, store, query, result, shuffled, moves>>

\* FactorySite.localise
Localise(align, p) ==
    IF \E l \in DOMAIN align : align[l] = p THEN CHOOSE l \in DOMAIN align : align[l] = p ELSE p

---------------------------------------------------------------------------
(* SiteRegistry *)

Moved == moves < MaxMoves /\ moves' = moves + 1 /\ UNCHANGED <<store, query, result>>

\* register replaces what was there under the name
Register(s, a) ==
    /\ Moved
    /\ site' = [t \in DOMAIN site \cup {s} |->
                  IF t = s THEN [align |-> a, online |-> TRUE] ELSE site[t]]
    /\ shuffled' = shuffled \cup {s}

Unregister(s) ==
    /\ Moved /\ s \in DOMAIN site
    /\ site' = [t \in DOMAIN site \ {s} |-> site[t]]
    /\ shuffled' = shuffled \cup {s}

\* mutant: the entry is built anew, and its alignment is the default
OnlineAnew(s, on) == [site EXCEPT ![s] = [align |-> << >>, online |-> on]]

OnlineSet(s, on) == [site EXCEPT ![s].online = on]

SetOnline(s, on) ==
    /\ Moved /\ s \in DOMAIN site
    /\ site' = OnlineSet(s, on)
    /\ UNCHANGED shuffled

\* seed_demo_sites: two sites and no other
Seed(s, t, a) ==
    /\ Moved /\ s # t
    /\ site' = [u \in {s, t} |-> [align |-> IF u = s THEN << >> ELSE a, online |-> TRUE]]
    /\ shuffled' = Sites

---------------------------------------------------------------------------
(* The stores of the sites: external *)

\* time is the row's place by ORDER BY in its store, text that of the characters
\* its time is written with among those of all stores; rows may tie in both
Stored(s, p, time, text) ==
    /\ Cardinality(store) < MaxRows
    /\ store' = store \cup {[of |-> s, term |-> p, time |-> time, text |-> text,
                            nth |-> Cardinality({r \in store : r.of = s /\ r.term = p})]}
    /\ UNCHANGED <<site, query, result, shuffled, moves>>

\* n of the rows, or all there are
Some(rows, n) == {T \in SUBSET rows : Cardinality(T) <= n /\ (T = rows \/ Cardinality(T) = n)}

\* ORDER BY DESC(?time) LIMIT n in one store
Newest(rows, n) == {T \in Some(rows, n) : \A r \in T, q \in rows \ T : r.time >= q.time}

---------------------------------------------------------------------------
(* query_property *)

\* merged.sort by str(time), newest first, and the first n of it
FirstByText(rows, n) == {T \in Some(rows, n) : \A r \in T, q \in rows \ T : r.text >= q.text}

\* build_property_query gives every site the whole limit
SiteLimit(q) == q.limit

Asked(wanted) == {s \in DOMAIN site \cap wanted : site[s].online}

\* the sites are those on line now, with the alignment they have now
AskSites(p, n, wanted) ==
    /\ query = {}
    /\ IF Asked(wanted) = {}
       THEN /\ result' = {[asked |-> {}, rows |-> {}, found |-> {}, failed |-> {},
                           degraded |-> TRUE, limit |-> n, words |-> << >>, labels |-> << >>]}
            /\ UNCHANGED query
       ELSE /\ query' = {[about |-> p, limit |-> n,
                          asked |-> [s \in Asked(wanted) |-> Localise(site[s].align, p)],
                          rows |-> {}, found |-> {}, open |-> Asked(wanted), failed |-> {}]}
            /\ result' = {}
    /\ shuffled' = {}
    /\ UNCHANGED <<site, store, moves>>

RowsLike(s, word) == {r \in store : r.of = s /\ <<word, r.term>> \in WordIn}

\* query_site: what a store answers with, and all it might have (history)
SiteAnswers(s) ==
    /\ \E q \in query :
          /\ s \in q.open
          /\ \E T \in Newest(RowsLike(s, q.asked[s]), SiteLimit(q)) :
                query' = {[q EXCEPT !.rows = @ \cup T, !.found = @ \cup RowsLike(s, q.asked[s]),
                                    !.open = @ \ {s}]}
    /\ UNCHANGED <<site, store, result, shuffled, moves>>

\* an error, a timeout, or a status other than 200
SiteFails(s) ==
    /\ \E q \in query :
          /\ s \in q.open
          /\ query' = {[q EXCEPT !.open = @ \ {s}, !.failed = @ \cup {s}]}
    /\ UNCHANGED <<site, store, result, shuffled, moves>>

Degraded(q) == q.failed # {}

\* compare_property looks the sites up again for their words
Labels(q, rows) ==
    [s \in {r.of : r \in rows} |->
        IF s \in DOMAIN site THEN Localise(site[s].align, q.about) ELSE q.about]

Finish ==
    /\ \E q \in query : \E T \in FirstByText(q.rows, q.limit) :
          /\ q.open = {}
          /\ result' = {[asked |-> DOMAIN q.asked, rows |-> T, found |-> q.found,
                         failed |-> q.failed, degraded |-> Degraded(q), limit |-> q.limit,
                         words |-> q.asked, labels |-> Labels(q, T)]}
    /\ query' = {}
    /\ UNCHANGED <<site, store, shuffled, moves>>

---------------------------------------------------------------------------
FederationInit ==
    /\ site = << >> /\ store = {} /\ query = {} /\ result = {}
    /\ shuffled = {} /\ moves = 0

FederationNext ==
    \/ \E s \in Sites, a \in Alignments : Register(s, a)
    \/ \E s, t \in Sites, a \in Alignments : Seed(s, t, a)
    \/ \E s \in Sites : Unregister(s) \/ SiteAnswers(s) \/ SiteFails(s)
    \/ \E s \in Sites, on \in BOOLEAN : SetOnline(s, on)
    \/ \E s \in Sites, p \in Terms, time, text \in Ranks : Stored(s, p, time, text)
    \/ \E p \in Terms, n \in Limits, w \in (SUBSET Sites) \ {{}} : AskSites(p, n, w)
    \/ Finish

FederationSpec == FederationInit /\ [][FederationNext]_federationVars

---------------------------------------------------------------------------
(* Properties *)

\* The shape of the registry; a query that is waiting asks at least one site,
\* and compare_property tells only of sites it has a row of.
FederationTypeOK ==
    /\ DOMAIN site \subseteq Sites
    /\ \A s \in DOMAIN site : site[s].align \in Alignments \cup {<< >>} /\ site[s].online \in BOOLEAN
    /\ Cardinality(query) <= 1 /\ Cardinality(result) <= 1
    /\ \A res \in result : DOMAIN res.labels = {r.of : r \in res.rows}
    /\ \A q \in query : DOMAIN q.asked # {} /\ q.open \cup q.failed \subseteq DOMAIN q.asked

\* A row that a site found is in the result, unless the result is full and every
\* row in it is written with a time that is not less as text, or its own store had
\* as many rows as were asked for that come before it or tie: however many sites
\* share the limit, none of them takes a row's place but one that the text or its
\* store puts first.  That it is newer does not follow: text and time may differ.
ResultIsNewest ==
    \A res \in result : \A r \in res.found \ res.rows :
        /\ Cardinality(res.rows) = res.limit
        /\ \/ \A k \in res.rows : k.text >= r.text
           \/ Cardinality({k \in res.found \ {r} : k.of = r.of /\ k.time >= r.time}) >= res.limit

\* A result is degraded exactly when a site that was asked is not in it, or
\* when none was asked; and what is in it comes from sites that answered.
DegradedIsTold ==
    \A res \in result :
        /\ res.degraded <=> res.failed # {} \/ res.asked = {}
        /\ \A r \in res.rows : r.of \in res.asked \ res.failed

\* compare_property labels the values of a site with the word they were asked
\* by, unless the site was registered anew or removed while the query waited:
\* it reads the registry again after the answers.
LabelIsAsked ==
    [][\A res \in result' \ result : \A s \in DOMAIN res.labels :
           s \notin shuffled => res.labels[s] = res.words[s]]_federationVars

\* A federated answer has the first rows of what the sites found, by their own
\* order and that of the text, says when one is missing, and is labelled with
\* the words it was asked with, although the registry changes while it waits.
SitesAnswerAsAsked ==
    /\ [](FederationTypeOK /\ ResultIsNewest /\ DegradedIsTold)
    /\ LabelIsAsked
=============================================================================
