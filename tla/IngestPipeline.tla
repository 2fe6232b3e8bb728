-------------------------- MODULE IngestPipeline --------------------------
(***************************************************************************)
(* One reading's way from the broker to the knowledge graph: the MQTT      *)
(* adapter's queue (connectivity/adapters/mqtt_adapter.py), the forwarder  *)
(* with its retries (connectivity/router.py), the ingest handler           *)
(* (backend/api/ingest.py), its background write, the provenance audit     *)
(* (semantic_layer/semantic_provenance_audit.py) and the retry service     *)
(* (backend/services/retry_service.py).                                    *)
(*                                                                         *)
(* The handler has no await between the gate and its return, so a request  *)
(* is one step.  A write to Fuseki is awaited: it may be stored and        *)
(* answered, stored and unanswered (5 s timeout), or not stored; nobody    *)
(* else touches its audit row meanwhile, so write and record are one step  *)
(* that a crash may cut in two.                                            *)
(***************************************************************************)
EXTENDS Naturals, FiniteSets, Sequences

CONSTANTS
    Readings,     \* sensor messages (each is published once)
    Unbound,      \* those of a device without a matching protocol binding
    Rejected,     \* those the SHACL gate rejects
    QueueSize,    \* MQTT_QUEUE_SIZE
    MaxAttempts,  \* MAX_RETRIES of the forwarder
    RetryLimit,   \* _RETRY_LIMIT of the audit
    MaxPerRun,    \* max_per_run of the retry loop
    MaxIds,       \* bound on the ingest ids handed out
    MaxCrashes,   \* bound on backend crashes
    NoRow         \* no row of sensor_data

ASSUME IngestAssumption ==
    /\ Unbound \subseteq Readings /\ Rejected \subseteq Readings
    /\ QueueSize \in Nat \ {0} /\ MaxAttempts \in Nat \ {0}
    /\ RetryLimit \in Nat \ {0} /\ MaxPerRun \in Nat \ {0}
    /\ MaxIds \in Nat /\ MaxCrashes \in Nat
    /\ NoRow \notin Readings

Ids == 1..MaxIds
Post == [reading : Readings, attempt : 1..MaxAttempts]

VARIABLES
    arriving,     \* readings the broker has yet to deliver
    queue,        \* MQTTAdapter._queue
    sender,       \* the post forward_to_backend waits for, as a set of 0 or 1
    posts,        \* posts the backend has not handled yet
    answered,     \* answers on their way: [post, ok]
    forwarded,    \* readings whose forward returned True
    nextId,
    record,       \* sensor_data: the reading of a row, by ingest id
    tasks,        \* ids whose background write is scheduled or running
    dropped,      \* ids whose background write will never run
    audit,        \* prov_audit: "none", "pending" or "written", by ingest id
    retries,      \* retry_count
    place,        \* prov_audit.id, the order of the rows
    run,          \* what is left of the retry loop's current run
    graph,        \* observations in Fuseki, by ingest id
    crashes

adapter == <<arriving, queue>>
forwarder == <<sender, forwarded>>
http == <<posts, answered>>
store == <<nextId, record>>
prov == <<audit, retries, place>>
vars == <<adapter, forwarder, http, store, tasks, dropped, prov, run, graph, crashes>>

---------------------------------------------------------------------------
(* The MQTT adapter and the forwarder *)

\* _on_message and _enqueue: a full queue drops the newest message
Enqueue(r) ==
    /\ r \in arriving
    /\ arriving' = arriving \ {r}
    /\ queue' = IF Len(queue) >= QueueSize THEN queue ELSE Append(queue, r)
    /\ UNCHANGED <<forwarder, http, store, tasks, dropped, prov, run, graph, crashes>>

Send(r, n) ==
    LET p == [reading |-> r, attempt |-> n]
    IN  sender' = {p} /\ posts' = posts \cup {p} /\ answered' = {}

\* start: the next message, first attempt
Take ==
    /\ sender = {} /\ queue # <<>>
    /\ queue' = Tail(queue)
    /\ Send(Head(queue), 1)
    /\ UNCHANGED <<arriving, forwarded, store, tasks, dropped, prov, run, graph, crashes>>

Success(p) ==
    /\ [post |-> p, ok |-> TRUE] \in answered
    /\ forwarded' = forwarded \cup {p.reading}
    /\ sender' = {} /\ answered' = {}
    /\ UNCHANGED <<adapter, posts, store, tasks, dropped, prov, run, graph, crashes>>

\* mutant: a bad status ends the attempts as if it were a success
FailureIsFinal(p) ==
    /\ sender' = {} /\ answered' = {}
    /\ forwarded' = forwarded \cup {p.reading}
    /\ UNCHANGED posts

\* A failed attempt is repeated until MaxAttempts of them have failed.
Failure(p) ==
    IF p.attempt < MaxAttempts
    THEN Send(p.reading, p.attempt + 1) /\ UNCHANGED forwarded
    ELSE /\ sender' = {} /\ answered' = {}
         /\ UNCHANGED <<posts, forwarded>>

\* a status other than 200 and 201
BadStatus(p) ==
    /\ [post |-> p, ok |-> FALSE] \in answered
    /\ Failure(p)
    /\ UNCHANGED <<adapter, store, tasks, dropped, prov, run, graph, crashes>>

\* the client gives up after 10 s; the backend may still handle the post
TimesOut(p) ==
    /\ p \in sender
    /\ Failure(p)
    /\ UNCHANGED <<adapter, store, tasks, dropped, prov, run, graph, crashes>>

\* SIGHUP: the adapter is rebuilt once its current forward has ended
Reload ==
    /\ sender = {} /\ queue # <<>>
    /\ queue' = <<>>
    /\ UNCHANGED <<arriving, forwarder, http, store, tasks, dropped, prov, run, graph, crashes>>

---------------------------------------------------------------------------
(* The ingest handler *)

\* record_attempt appends a row
Recorded(id, status) ==
    /\ audit' = [audit EXCEPT ![id] = status]
    /\ place' = [place EXCEPT ![id] = 1 + Cardinality({i \in Ids : audit[i] # "none"})]
    /\ UNCHANGED retries

Answer(p, ok) ==
    answered' = IF p \in sender THEN answered \cup {[post |-> p, ok |-> ok]} ELSE answered

NewId(p) ==
    /\ p \in posts /\ nextId <= MaxIds
    /\ posts' = posts \ {p}
    /\ nextId' = nextId + 1

\* _validate_protocol_binding: 422 before anything is written
Refuse(p) ==
    /\ p \in posts /\ p.reading \in Unbound
    /\ posts' = posts \ {p}
    /\ Answer(p, FALSE)
    /\ UNCHANGED <<adapter, forwarder, store, tasks, dropped, prov, run, graph, crashes>>

\* the gate rejects: audited under an id that no row has, 422
Reject(p) ==
    /\ NewId(p)
    /\ p.reading \in Rejected \ Unbound
    /\ Recorded(nextId, "pending")
    /\ Answer(p, FALSE)
    /\ UNCHANGED <<adapter, forwarder, record, tasks, dropped, run, graph, crashes>>

\* insert_sensor_data, analyses, background task, 200
Accept(p) ==
    /\ NewId(p)
    /\ p.reading \notin Rejected \cup Unbound
    /\ record' = [record EXCEPT ![nextId] = p.reading]
    /\ tasks' = tasks \cup {nextId}
    /\ Answer(p, TRUE)
    /\ UNCHANGED <<adapter, forwarder, dropped, prov, run, graph, crashes>>

\* an analysis raises after the commit: 500, and no background task runs
Break(p) ==
    /\ NewId(p)
    /\ p.reading \notin Rejected \cup Unbound
    /\ record' = [record EXCEPT ![nextId] = p.reading]
    /\ dropped' = dropped \cup {nextId}
    /\ Answer(p, FALSE)
    /\ UNCHANGED <<adapter, forwarder, tasks, prov, run, graph, crashes>>

---------------------------------------------------------------------------
(* Writes to Fuseki, audited *)

Outcomes == {"ok", "unanswered", "lost"}

Written(id, outcome) ==
    graph' = IF outcome = "lost" THEN graph ELSE [graph EXCEPT ![id] = @ + 1]

Audited(outcome) == IF outcome = "ok" THEN "written" ELSE "pending"

\* mutant: only a write that succeeded is audited
WriteThenAudit(id, outcome) ==
    /\ id \in tasks
    /\ tasks' = tasks \ {id}
    /\ Written(id, outcome)
    /\ IF outcome = "ok" THEN Recorded(id, "written") ELSE UNCHANGED prov
    /\ UNCHANGED <<adapter, forwarder, http, store, dropped, run, crashes>>

\* _write_kg_and_audit
WriteAndAudit(id, outcome) ==
    /\ id \in tasks
    /\ tasks' = tasks \ {id}
    /\ Written(id, outcome)
    /\ Recorded(id, Audited(outcome))
    /\ UNCHANGED <<adapter, forwarder, http, store, dropped, run, crashes>>

\* mutant: the retry count is not consulted
PendingForever == {id \in Ids : audit[id] = "pending"}

PendingRetries == {id \in Ids : audit[id] = "pending" /\ retries[id] < RetryLimit}

Oldest(s) == {id \in s : Cardinality({i \in s : place[i] < place[id]}) < MaxPerRun}

\* The loop wakes up and reads its work list.
StartRun ==
    /\ run = {} /\ PendingRetries # {}
    /\ run' = Oldest(PendingRetries)
    /\ UNCHANGED <<adapter, forwarder, http, store, tasks, dropped, prov, graph, crashes>>

IsNext(id) == id \in run /\ \A i \in run : place[id] <= place[i]

Increment(id) ==
    /\ retries' = [retries EXCEPT ![id] = @ + 1]
    /\ UNCHANGED <<audit, place>>

MarkWritten(id) ==
    /\ audit' = [audit EXCEPT ![id] = "written"]
    /\ UNCHANGED <<retries, place>>

\* mutant: an id without a row is skipped without being counted
SkipsSilently(id) ==
    /\ IsNext(id) /\ record[id] = NoRow
    /\ run' = run \ {id}
    /\ UNCHANGED <<adapter, forwarder, http, store, tasks, dropped, prov, graph, crashes>>

\* "record not found": the id of a rejected reading
RetryFindsNothing(id) ==
    /\ IsNext(id) /\ record[id] = NoRow
    /\ run' = run \ {id}
    /\ Increment(id)
    /\ UNCHANGED <<adapter, forwarder, http, store, tasks, dropped, graph, crashes>>

RetryWrites(id, outcome) ==
    /\ IsNext(id) /\ record[id] # NoRow
    /\ run' = run \ {id}
    /\ Written(id, outcome)
    /\ IF outcome = "ok" THEN MarkWritten(id) ELSE Increment(id)
    /\ UNCHANGED <<adapter, forwarder, http, store, tasks, dropped, crashes>>

\* The process dies: requests, background tasks and the run are gone, and any
\* write under way may have been stored.
Crash ==
    /\ crashes < MaxCrashes
    /\ crashes' = crashes + 1
    /\ \E done \in SUBSET (tasks \cup {id \in run : IsNext(id) /\ record[id] # NoRow}) :
          graph' = [id \in Ids |-> IF id \in done THEN graph[id] + 1 ELSE graph[id]]
    /\ posts' = {} /\ answered' = {}
    /\ tasks' = {} /\ run' = {}
    /\ dropped' = dropped \cup tasks
    /\ UNCHANGED <<adapter, forwarder, store, prov>>

---------------------------------------------------------------------------
Init ==
    /\ arriving = Readings
    /\ queue = <<>>
    /\ sender = {} /\ posts = {} /\ answered = {} /\ forwarded = {}
    /\ nextId = 1
    /\ record = [id \in Ids |-> NoRow]
    /\ tasks = {} /\ dropped = {}
    /\ audit = [id \in Ids |-> "none"]
    /\ retries = [id \in Ids |-> 0]
    /\ place = [id \in Ids |-> 0]
    /\ run = {}
    /\ graph = [id \in Ids |-> 0]
    /\ crashes = 0

Connectivity ==
    \/ \E r \in arriving : Enqueue(r)
    \/ Take
    \/ \E p \in sender : Success(p) \/ BadStatus(p) \/ TimesOut(p)
    \/ Reload

Handler == \E p \in posts : Refuse(p) \/ Reject(p) \/ Accept(p) \/ Break(p)

BackgroundWrite(id) == \E outcome \in Outcomes : WriteAndAudit(id, outcome)

RetryLoop ==
    \/ StartRun
    \/ \E id \in run :
          RetryFindsNothing(id) \/ \E outcome \in Outcomes : RetryWrites(id, outcome)

Next ==
    \/ Connectivity
    \/ Handler
    \/ \E id \in tasks : BackgroundWrite(id)
    \/ RetryLoop
    \/ Crash

Spec == Init /\ [][Next]_vars

\* The event loop runs every background task, and the retry loop wakes up for
\* ever: every await of theirs ends within its timeout.
FairSpec ==
    /\ Spec
    /\ WF_vars(RetryLoop)
    /\ \A id \in Ids : WF_vars(BackgroundWrite(id))

---------------------------------------------------------------------------
(* Properties *)

\* The shape of the pipeline's state.
TypeOK ==
    /\ arriving \subseteq Readings
    /\ queue \in Seq(Readings) /\ Len(queue) <= QueueSize
    /\ sender \subseteq Post /\ Cardinality(sender) <= 1
    /\ posts \subseteq Post
    /\ answered \subseteq [post : sender, ok : BOOLEAN]
    /\ forwarded \subseteq Readings
    /\ nextId \in 1..(MaxIds + 1)
    /\ record \in [Ids -> Readings \cup {NoRow}]
    /\ tasks \subseteq Ids /\ dropped \subseteq Ids /\ run \subseteq Ids
    /\ audit \in [Ids -> {"none", "pending", "written"}]
    /\ retries \in [Ids -> 0..RetryLimit]
    /\ place \in [Ids -> Nat]
    /\ graph \in [Ids -> Nat]
    /\ crashes \in 0..MaxCrashes

\* forward_to_backend returns True only for a reading the backend stored,
\* whichever attempt's answer it was that arrived.
ForwardedIsStored == \A r \in forwarded : \E id \in Ids : record[id] = r

\* The audit's kg_written = 1 stands for an observation in the graph of a
\* reading in the store, through timeouts, retries and crashes.
WrittenIsInGraph ==
    \A id \in Ids : audit[id] = "written" => graph[id] > 0 /\ record[id] \in Readings \ Rejected

\* What is reported as done has been done, to the adapter and in the audit.
ReportsAreTrue ==
    /\ ForwardedIsStored
    /\ WrittenIsInGraph

\* Unanswered writes and crashes duplicate an observation (its URI is drawn
\* afresh on every write), but no more often than the retry limit and the
\* crashes allow.
DuplicatesBounded ==
    \A id \in Ids : graph[id] <= 1 + RetryLimit + crashes

\* A stored reading leaves the background exactly once: into the audit, or
\* dropped by a failed handler or a crash; nothing else escapes the audit.
StoredIsTracked ==
    \A id \in Ids : record[id] # NoRow =>
        \/ id \in tasks /\ audit[id] = "none" /\ id \notin dropped
        \/ id \in dropped /\ audit[id] = "none" /\ id \notin tasks
        \/ audit[id] # "none" /\ id \notin tasks \cup dropped

\* Every audited write is finally written or given up: a backlog longer than
\* one run starves nobody, because every failure counts.
PendingSettles ==
    \A id \in Ids :
        audit[id] = "pending" ~> (audit[id] = "written" \/ retries[id] = RetryLimit)

===========================================================================
