------------------------------ MODULE Admission ------------------------------
(***************************************************************************)
(* How the backend lets a request in and counts it (backend/middleware.py):*)
(* the limit on the body, a token bucket per client, and the metrics.  A   *)
(* token is counted in Cost parts, so that a tick may bring less than one. *)
(***************************************************************************)
EXTENDS Integers, Sequences, FiniteSets

CONSTANTS
    Clients,            \* client keys: the head of an API key, or an address
    Burst, Cost, Rate,  \* tokens a bucket holds, parts of a token, parts a tick brings
    MaxMoment, MaxArrivals, MaxInFlight    \* bounds

ASSUME AdmissionAssumption ==
    /\ Burst \in Nat \ {0} /\ Cost \in Nat \ {0} /\ Rate \in Nat
    /\ MaxMoment \in Nat /\ MaxArrivals \in Nat /\ MaxInFlight \in Nat

VARIABLES
    moment,     \* time.monotonic
    bucket,     \* TokenBucket._buckets: [tokens, last] of the clients seen
    running,    \* requests handed on and not yet answered
    metrics,    \* Metrics
    let,        \* when each client's requests were let in (history)
    turned,     \* <<client, when, how many were in before>> of those turned away (history)
    arrivals,   \* requests so far (history)
    erased      \* requests the metrics had counted when they were reset (history)

admissionVars == <<moment, bucket, running, metrics, let, turned, arrivals, erased>>

NoMetrics == [requests |-> 0, errors |-> 0, limited |-> 0, large |-> 0]

---------------------------------------------------------------------------
(* TokenBucket *)

Lesser(a, b) == IF a < b THEN a ELSE b

\* mutant: what was saved up has no limit
SavedUp(tokens, passed) == tokens + passed * Rate

Refilled(tokens, passed) == Lesser(Burst * Cost, tokens + passed * Rate)

\* what the client has now; a bucket is full when it is first seen
Tokens(c) ==
    IF c \in DOMAIN bucket
    THEN Refilled(bucket[c].tokens, moment - bucket[c].last) ELSE Burst * Cost

Put(c, tokens) ==
    [d \in DOMAIN bucket \cup {c} |->
        IF d = c THEN [tokens |-> tokens, last |-> moment] ELSE bucket[d]]

\* a refusal notes the moment, and keeps the part of a token that is there
TurnedAway(c) == Put(c, Tokens(c))

---------------------------------------------------------------------------
(* RequestContextMiddleware *)

Arrives == arrivals < MaxArrivals /\ arrivals' = arrivals + 1 /\ UNCHANGED <<moment, erased>>

TooLarge ==
    /\ Arrives
    /\ metrics' = [metrics EXCEPT !.large = @ + 1]
    /\ UNCHANGED <<bucket, running, let, turned>>

RateLimited(c) ==
    /\ Arrives /\ Tokens(c) < Cost
    /\ bucket' = TurnedAway(c)
    /\ metrics' = [metrics EXCEPT !.limited = @ + 1]
    /\ turned' = turned \cup {<<c, moment, Len(let[c])>>}
    /\ UNCHANGED <<running, let>>

LetIn(c) ==
    /\ Arrives /\ running < MaxInFlight /\ Tokens(c) >= Cost
    /\ bucket' = Put(c, Tokens(c) - Cost)
    /\ running' = running + 1
    /\ let' = [let EXCEPT ![c] = Append(@, moment)]
    /\ UNCHANGED <<metrics, turned>>

\* /health and /metrics, and this host when it is trusted
Exempt ==
    /\ Arrives /\ running < MaxInFlight
    /\ running' = running + 1
    /\ UNCHANGED <<bucket, metrics, let, turned>>

\* Metrics.observe: an exception is a 500, and goes on
Observed(failed) ==
    [metrics EXCEPT !.requests = @ + 1, !.errors = IF failed THEN @ + 1 ELSE @]

Answered(failed) ==
    /\ running > 0 /\ running' = running - 1
    /\ metrics' = Observed(failed)
    /\ UNCHANGED <<moment, bucket, let, turned, arrivals, erased>>

MomentPasses ==
    /\ moment < MaxMoment /\ moment' = moment + 1
    /\ UNCHANGED <<bucket, running, metrics, let, turned, arrivals, erased>>

\* what the metrics have counted
Counted == metrics.requests + metrics.limited + metrics.large

\* reset, from api/ops.py, with requests under way
ResetMetrics ==
    /\ Counted > 0
    /\ metrics' = NoMetrics
    /\ erased' = erased + Counted
    /\ UNCHANGED <<moment, bucket, running, let, turned, arrivals>>

---------------------------------------------------------------------------
AdmissionInit ==
    /\ moment = 0 /\ bucket = << >> /\ running = 0 /\ metrics = NoMetrics
    /\ let = [c \in Clients |-> << >>] /\ turned = {} /\ arrivals = 0 /\ erased = 0

AdmissionNext ==
    \/ TooLarge \/ Exempt \/ MomentPasses \/ ResetMetrics
    \/ \E c \in Clients : RateLimited(c) \/ LetIn(c)
    \/ \E failed \in BOOLEAN : Answered(failed)

AdmissionSpec == AdmissionInit /\ [][AdmissionNext]_admissionVars

---------------------------------------------------------------------------
(* Properties *)

\* Every request is in exactly one count: it is waiting, it was counted when it
\* was answered or turned away, or that count was erased; no reset counts one
\* twice or loses one that is under way.
EachCountedOnce ==
    /\ arrivals = erased + Counted + running
    /\ metrics.errors <= metrics.requests
    /\ \A c \in DOMAIN bucket : bucket[c].tokens \in 0..Burst * Cost

\* Between any two of a client's requests that were let in there are no more
\* than the burst and what the time between them brings, whatever the rhythm
\* of its requests, refused ones among them.
RateIsKept ==
    \A c \in Clients : \A i, j \in DOMAIN let[c] :
        i <= j => (j - i) * Cost <= (Burst - 1) * Cost + (let[c][j] - let[c][i]) * Rate

\* And no client is turned away that keeps to that.
TurnedAwayBeyond ==
    \A x \in turned : \E i \in 1..x[3] :
        (x[3] - i + 2) * Cost > Burst * Cost + (x[2] - let[x[1]][i]) * Rate

\* A client gets in exactly as fast as its bucket allows, and every request is in
\* one count.
RequestsAdmittedFairly ==
    /\ EachCountedOnce
    /\ RateIsKept
    /\ TurnedAwayBeyond
=============================================================================
