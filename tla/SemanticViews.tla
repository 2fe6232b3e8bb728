--------------------------- MODULE SemanticViews ---------------------------
(***************************************************************************)
(* One view of GET /semantic (backend/api/semantic.py): an answer is kept  *)
(* for a while, and requests that find none share one query.  Requests are *)
(* coroutines on one event loop: they interleave only where they wait for  *)
(* the query, and those whose query has ended run before time passes.  A   *)
(* request that is cancelled takes the query it awaits with it.            *)
(* The content of the graph is a number that grows with every write, and 0 *)
(* is a graph with nothing to show.                                        *)
(***************************************************************************)
EXTENDS Integers, FiniteSets

CONSTANTS
    Requests,
    CacheTTL,       \* _CACHE_TTL
    MaxViewClock, MaxContent, MaxQueries   \* bounds

ASSUME ViewsAssumption ==
    /\ CacheTTL \in Nat /\ MaxViewClock \in Nat /\ MaxContent \in Nat /\ MaxQueries \in Nat

VARIABLES
    viewClock,
    content,     \* what the graph holds
    contentAt,   \* what it held at each moment (history)
    entry,       \* _cache of the view, or NoEntry
    inflight,    \* _inflight of the view: the number of a query, 0 for none
    query,       \* the queries made so far
    request      \* what each request waits for, or got

viewVars == <<viewClock, content, contentAt, entry, inflight, query, request>>

NoEntry == [at |-> -1, value |-> -1, of |-> 0]

NewRequest == [state |-> "new", query |-> 0, value |-> -1]

Awaits(q) == [state |-> "waits", query |-> q, value |-> -1]

Answered(value, q) == [state |-> "answered", query |-> q, value |-> value]

\* the snapshot of the bindings instead of the graph
Degraded == [state |-> "degraded", query |-> 0, value |-> -1]

\* an exception that the handler does not catch: status 500, or no answer
Failed == [state |-> "failed", query |-> 0, value |-> -1]

Last == Cardinality(DOMAIN query)

Running == {q \in DOMAIN query : query[q].state \in {"sent", "read"}}

Ended(q) == query[q].state \in {"done", "failed", "broken", "cancelled"}

\* requests that the loop is about to run
Woken == {r \in Requests : request[r].state = "waits" /\ Ended(request[r].query)}

---------------------------------------------------------------------------
(* _cached_sparql *)

\* mutant: the age of the entry is not looked at
FreshForEver == entry # NoEntry

Fresh == entry # NoEntry /\ viewClock - entry.at < CacheTTL

\* no results are no answer
AnswerFor(value, q) == IF value = 0 THEN Degraded ELSE Answered(value, q)

AskFromCache(r) ==
    /\ request[r] = NewRequest /\ Fresh
    /\ request' = [request EXCEPT ![r] = AnswerFor(entry.value, entry.of)]
    /\ UNCHANGED <<viewClock, content, contentAt, entry, inflight, query>>

Shared == inflight # 0

AskFromQuery(r) ==
    /\ request[r] = NewRequest /\ ~Fresh
    /\ IF Shared
       THEN /\ request' = [request EXCEPT ![r] = Awaits(inflight)]
            /\ UNCHANGED <<inflight, query>>
       ELSE /\ Last < MaxQueries
            /\ query' = [q \in DOMAIN query \cup {Last + 1} |->
                           IF q \in DOMAIN query THEN query[q]
                           ELSE [state |-> "sent", at |-> viewClock, ended |-> -1, value |-> -1]]
            /\ inflight' = Last + 1
            /\ request' = [request EXCEPT ![r] = Awaits(Last + 1)]
    /\ UNCHANGED <<viewClock, content, contentAt, entry>>

\* the finally clause
Cleared(q) == IF inflight = q THEN 0 ELSE inflight

CachedResult(q) ==
    IF query[q].state = "done" THEN [at |-> viewClock, value |-> query[q].value, of |-> q] ELSE entry

\* semantic catches httpx.HTTPError and nothing else
Outcome(q) ==
    CASE query[q].state = "done"   -> AnswerFor(query[q].value, q)
      [] query[q].state = "failed" -> Degraded
      [] OTHER                     -> Failed

ResumeRequest(r) ==
    /\ r \in Woken
    /\ LET q == request[r].query
       IN /\ entry' = CachedResult(q)
          /\ request' = [request EXCEPT ![r] = Outcome(q)]
          /\ inflight' = Cleared(q)
    /\ UNCHANGED <<viewClock, content, contentAt, query>>

\* The server cancels a request that waits, whose client has gone: the await hands
\* this on to the query, with which everybody who waits for it fails; one that
\* was about to run runs its finally clause.
CancelRequest(r) ==
    /\ request[r].state = "waits"
    /\ LET q == request[r].query
       IN IF Ended(q)
          THEN /\ request' = [request EXCEPT ![r] = Failed] /\ inflight' = Cleared(q)
               /\ UNCHANGED query
          ELSE /\ query' = [query EXCEPT ![q].state = "cancelled", ![q].value = -1]
               /\ UNCHANGED <<request, inflight>>
    /\ UNCHANGED <<viewClock, content, contentAt, entry>>

\* The client asks again.
AskAgain(r) ==
    /\ request[r].state \in {"answered", "degraded", "failed"}
    /\ request' = [request EXCEPT ![r] = NewRequest]
    /\ UNCHANGED <<viewClock, content, contentAt, entry, inflight, query>>

---------------------------------------------------------------------------
(* _run_sparql, and the graph store *)

StoreReads(q) ==
    /\ query[q].state = "sent"
    /\ query' = [query EXCEPT ![q].state = "read", ![q].value = content]
    /\ UNCHANGED <<viewClock, content, contentAt, entry, inflight, request>>

QueryEnds(q) ==
    /\ query[q].state = "read"
    /\ query' = [query EXCEPT ![q].state = "done", ![q].ended = viewClock]
    /\ UNCHANGED <<viewClock, content, contentAt, entry, inflight, request>>

\* an httpx.HTTPError: an error of the transport, a status, or a timeout
QueryFails(q) ==
    /\ q \in Running
    /\ query' = [query EXCEPT ![q].state = "failed", ![q].value = -1]
    /\ UNCHANGED <<viewClock, content, contentAt, entry, inflight, request>>

\* the answer is not the JSON that is expected
QueryBreaks(q) ==
    /\ query[q].state = "read"
    /\ query' = [query EXCEPT ![q].state = "broken", ![q].value = -1]
    /\ UNCHANGED <<viewClock, content, contentAt, entry, inflight, request>>

GraphGrows ==
    /\ content < MaxContent /\ content' = content + 1
    /\ UNCHANGED <<viewClock, contentAt, entry, inflight, query, request>>

\* The loop does not sleep while there are requests to run.  A query may take any
\* time: _TIMEOUT is that of each operation of httpx, to connect, to send and to
\* read a part of the answer, and there is none of the whole.
ViewTick ==
    /\ viewClock < MaxViewClock
    /\ Woken = {}
    /\ viewClock' = viewClock + 1
    /\ contentAt' = [contentAt EXCEPT ![viewClock + 1] = content]
    /\ UNCHANGED <<content, entry, inflight, query, request>>

---------------------------------------------------------------------------
ViewsInit ==
    /\ viewClock = 0 /\ content = 0
    /\ contentAt = [t \in 0..MaxViewClock |-> 0]
    /\ entry = NoEntry /\ inflight = 0 /\ query = << >>
    /\ request = [r \in Requests |-> NewRequest]

QueryStep ==
    \E q \in DOMAIN query : StoreReads(q) \/ QueryEnds(q) \/ QueryFails(q) \/ QueryBreaks(q)

ViewsNext ==
    \/ \E r \in Requests :
          AskFromCache(r) \/ AskFromQuery(r) \/ ResumeRequest(r) \/ CancelRequest(r) \/ AskAgain(r)
    \/ QueryStep
    \/ GraphGrows
    \/ ViewTick

\* A query ends, by the store's answer or by the timeout of an operation, and the
\* loop runs who waits for it.  That the store does not send an answer without
\* end is assumed: the code has no limit for the whole.
ViewsFairness ==
    /\ WF_viewVars(QueryStep)
    /\ \A r \in Requests : WF_viewVars(ResumeRequest(r))

ViewsSpec == ViewsInit /\ [][ViewsNext]_viewVars /\ ViewsFairness

---------------------------------------------------------------------------
(* Properties *)

\* The shape of the cache and of the requests, and one query at a time.
ViewsTypeOK ==
    /\ viewClock \in 0..MaxViewClock /\ content \in 0..MaxContent
    /\ entry.value \in -1..MaxContent /\ entry.at \in -1..viewClock
    /\ inflight \in 0..Last
    /\ \A r \in Requests : request[r].state \in {"new", "waits", "answered", "degraded", "failed"}
    /\ Cardinality(Running) <= 1

\* A query that has ended is in flight only as long as somebody is about to take
\* its result: no request can join a query that failed or was cancelled long ago.
NoDeadFlight ==
    inflight # 0 /\ Ended(inflight) => \E r \in Woken : request[r].query = inflight

\* What is answered came from a query that ended within the lifetime of an entry,
\* or just now, and is not older than what the graph held when that query was
\* sent: neither those who share a query nor the entry they leave hand out more
\* than was asked for, however long a query takes and whoever is cancelled.
AnswersRecent ==
    [][\A r \in Requests :
          request[r].state # "answered" /\ request'[r].state = "answered"
          => LET q == query[request'[r].query]
             IN /\ q.state = "done" /\ (viewClock = q.ended \/ viewClock - q.ended < CacheTTL)
                /\ request'[r].value >= contentAt[q.at]]_viewVars

\* Who waits gets an answer, from the graph or the snapshot, or an error.
RequestAnswered ==
    \A r \in Requests :
        request[r].state = "waits" ~> request[r].state \in {"answered", "degraded", "failed"}

\* Requests that share a query all get an end of it, an answer is recent, and
\* nobody joins a query that has ended.
SharedQueryServes ==
    /\ [](ViewsTypeOK /\ NoDeadFlight)
    /\ AnswersRecent
    /\ RequestAnswered
===========================================================================
