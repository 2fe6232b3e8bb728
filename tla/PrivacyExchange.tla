--------------------------- MODULE PrivacyExchange ---------------------------
(***************************************************************************)
(* The exchange of statistics between sites                                *)
(* (semantic_layer/privacy_federation.py): a site publishes a noisy        *)
(* summary of its values, for which it pays out of a privacy budget, and   *)
(* sees where it stands among the others.  Of the noisy statistics the     *)
(* mean is kept, which is all that a position depends on; the noise is     *)
(* whatever it turns out to be, so a published mean is any number.  The    *)
(* budget is counted in whole units.                                       *)
(***************************************************************************)
EXTENDS Integers, FiniteSets, Functions

CONSTANTS
    Peers,          \* sites
    Metrics,        \* canonical properties
    Counts,         \* numbers of samples
    MinCount,       \* min_samples
    Epsilons, Budget,
    Means,          \* published means
    MaxPublishes    \* bound

ASSUME PrivacyAssumption ==
    /\ IsFiniteSet(Peers) /\ IsFiniteSet(Metrics)
    /\ Counts \subseteq Nat /\ MinCount \in Nat /\ Epsilons \subseteq Nat /\ Budget \in Nat
    /\ Means \subseteq Int /\ MaxPublishes \in Nat

VARIABLES
    spent,      \* PrivacyBudget._spent
    published,  \* the last summary by site and metric: [count, mean, epsilon]
    paid,       \* what the summaries that went out have cost since the reset (history)
    gathered,   \* what collect brought back: [of, mean, suppressed]
    publishes

privacyVars == <<spent, published, paid, gathered, publishes>>

---------------------------------------------------------------------------
(* summarise, PrivacyBudget.spend *)

Suppressed(n) == n < MinCount

\* mutant: what is spent is looked at, and not what is asked for
LooksBackOnly(s, eps) == spent[s] < Budget

Affordable(s, eps) == spent[s] + eps <= Budget

---------------------------------------------------------------------------
(* StatisticsExchange *)

\* publish: suppressed below the minimum, refused beyond the budget; in both
\* cases an older summary stays
Publish(s, m, n, mean, eps) ==
    /\ publishes < MaxPublishes /\ publishes' = publishes + 1
    /\ IF ~Suppressed(n) /\ Affordable(s, eps)
       THEN /\ spent' = [spent EXCEPT ![s] = @ + eps]
            /\ published' = [published EXCEPT ![<<s, m>>] = {[count |-> n, mean |-> mean, epsilon |-> eps]}]
            /\ paid' = [paid EXCEPT ![s] = @ + eps]
       ELSE UNCHANGED <<spent, published, paid>>
    /\ gathered' = {}

\* reset, and the process starting again
ResetExchange ==
    /\ \E s \in Peers : spent[s] > 0
    /\ spent' = [s \in Peers |-> 0] /\ paid' = [s \in Peers |-> 0]
    /\ published' = [x \in Peers \X Metrics |-> {}]
    /\ gathered' = {} /\ UNCHANGED publishes

\* what is published of a metric
Published(m) ==
    {[of |-> s, mean |-> (CHOOSE x \in published[<<s, m>>] : TRUE).mean, suppressed |-> FALSE] :
        s \in {t \in Peers : published[<<t, m>>] # {}}}

\* collect: a site that fails, or answers with another status, is left out;
\* one that has nothing to tell answers with a suppressed summary
Collect(m, answering) ==
    /\ gathered' = {p \in Published(m) : p.of \in answering} \cup
                   {[of |-> s, mean |-> 0, suppressed |-> TRUE] :
                       s \in {t \in answering : published[<<t, m>>] = {}}}
    /\ UNCHANGED <<spent, published, paid, publishes>>

---------------------------------------------------------------------------
(* benchmark: the statistics of n peers, multiplied by n or its square *)

Usable(own, all) == {p \in all : ~p.suppressed /\ p.of # own.of}

Total(S) == SumFunction([p \in S |-> p.mean])

Excess(own, S) == Cardinality(S) * own.mean - Total(S)

Squared(x) == x * x

Spread(S) == SumFunction([p \in S |-> Squared(Excess(p, S))])

\* |z| >= k: the deviation is of the sample, and next to nothing where the
\* peers agree or there is only one
Far(own, S, k) ==
    IF Spread(S) = 0 THEN Excess(own, S) # 0
    ELSE Squared(Excess(own, S)) * (Cardinality(S) - 1) >= k * k * Spread(S)

Standing(own, all) ==
    LET S == Usable(own, all)
        above == Excess(own, S) > 0
    IN IF own.suppressed \/ S = {} THEN "none"
       ELSE IF ~Far(own, S, 1) THEN "typical"
       ELSE IF Far(own, S, 2) THEN (IF above THEN "high_outlier" ELSE "low_outlier")
       ELSE IF above THEN "above_peers" ELSE "below_peers"

---------------------------------------------------------------------------
PrivacyInit ==
    /\ spent = [s \in Peers |-> 0] /\ paid = [s \in Peers |-> 0]
    /\ published = [x \in Peers \X Metrics |-> {}]
    /\ gathered = {} /\ publishes = 0

PrivacyNext ==
    \/ \E s \in Peers, m \in Metrics, n \in Counts, x \in Means, e \in Epsilons : Publish(s, m, n, x, e)
    \/ ResetExchange
    \/ \E m \in Metrics, A \in SUBSET Peers : Collect(m, A)

PrivacySpec == PrivacyInit /\ [][PrivacyNext]_privacyVars

---------------------------------------------------------------------------
(* Properties *)

\* No site has let out more than its budget since the last reset, whatever
\* order its publications came in, and what is out now was paid for.
BudgetKept ==
    \A s \in Peers :
        /\ paid[s] = spent[s] /\ spent[s] <= Budget
        /\ SumFunction([m \in Metrics |->
               IF published[<<s, m>>] = {} THEN 0
               ELSE (CHOOSE x \in published[<<s, m>>] : TRUE).epsilon]) <= spent[s]

\* Nothing is out that stands for too few samples to hide one of them.
PrivacyTypeOK ==
    /\ DOMAIN published = Peers \X Metrics /\ spent \in [Peers -> 0..Budget]
    /\ \A x \in Peers \X Metrics : \A sum \in published[x] : sum.count >= MinCount

\* A verdict follows the ranks, among what is published here (position_of) and
\* among what was collected: above means above some peer that has a mean, and
\* an outlier among fewer than six of them is beyond all of them.
VerdictFollowsRank ==
    \A all \in {Published(m) : m \in Metrics} \cup {gathered} : \A own \in all :
        LET v == Standing(own, all)
            means == {p \in all : ~p.suppressed /\ p.of # own.of}
            lower == {p \in means : p.mean < own.mean}
            higher == {p \in means : p.mean > own.mean}
        IN /\ v = "none" <=> own.suppressed \/ means = {}
           /\ v \in {"above_peers", "high_outlier"} => lower # {}
           /\ v \in {"below_peers", "low_outlier"} => higher # {}
           /\ v = "high_outlier" /\ Cardinality(means) < 6 => lower = means
           /\ v = "low_outlier" /\ Cardinality(means) < 6 => higher = means

\* What is let out is paid for and hides its samples, and what is said of it is
\* no more than the ranks it shows.
StatisticsStayPrivate ==
    /\ PrivacyTypeOK
    /\ BudgetKept
    /\ VerdictFollowsRank
=============================================================================
