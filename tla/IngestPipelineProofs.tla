----------------------- MODULE IngestPipelineProofs -----------------------
(***************************************************************************)
(* Theorems about IngestPipeline, for any readings, limits and crashes.    *)
(***************************************************************************)
EXTENDS IngestPipeline, FiniteSetTheorems, TLAPS

\* The inductive invariant, per ingest id: an id is fresh, or its write is
\* scheduled, or dropped, or audited; a write has been stored at most once
\* before it is audited, and once more for each counted retry and each crash.
Fresh(id) ==
    /\ record[id] = NoRow /\ audit[id] = "none" /\ graph[id] = 0
    /\ id \notin tasks \cup dropped

IdInv(id) ==
    /\ id >= nextId => Fresh(id)
    /\ record[id] # NoRow => record[id] \notin Rejected
    /\ audit[id] = "none" => retries[id] = 0 /\ graph[id] <= 1 + crashes
    /\ id \in tasks =>
          audit[id] = "none" /\ id \notin dropped /\ record[id] # NoRow /\ graph[id] = 0
    /\ id \in dropped => audit[id] = "none"
    /\ record[id] # NoRow => id \in tasks \/ id \in dropped \/ audit[id] # "none"
    /\ id \in run => audit[id] = "pending" /\ retries[id] < RetryLimit
    /\ audit[id] = "pending" => graph[id] <= 1 + retries[id] + crashes
    /\ audit[id] = "written" =>
          graph[id] > 0 /\ record[id] # NoRow /\ graph[id] <= 1 + RetryLimit + crashes

AnswersInv ==
    \A a \in answered : a.ok => \E id \in Ids : record[id] = a.post.reading

\* TypeOK without the parts that a step needs one at a time
HttpType ==
    /\ arriving \subseteq Readings
    /\ queue \in Seq(Readings) /\ Len(queue) <= QueueSize
    /\ sender \subseteq Post /\ Cardinality(sender) <= 1
    /\ posts \subseteq Post
    /\ answered \subseteq [post : sender, ok : BOOLEAN]
    /\ forwarded \subseteq Readings

IdType ==
    /\ nextId \in 1..(MaxIds + 1)
    /\ record \in [Ids -> Readings \cup {NoRow}]
    /\ tasks \subseteq Ids /\ dropped \subseteq Ids /\ run \subseteq Ids
    /\ audit \in [Ids -> {"none", "pending", "written"}]
    /\ retries \in [Ids -> 0..RetryLimit]
    /\ place \in [Ids -> Nat]
    /\ graph \in [Ids -> Nat]
    /\ crashes \in 0..MaxCrashes

Inv ==
    /\ HttpType /\ IdType
    /\ AnswersInv
    /\ ForwardedIsStored
    /\ \A id \in Ids : IdInv(id)

USE DEF adapter, forwarder, http, store, prov

idVars == <<store, tasks, dropped, prov, run, graph, crashes>>

---------------------------------------------------------------------------
(* Steps of connectivity and of the HTTP exchange leave the ids alone. *)

LEMMA IdsUntouched ==
    ASSUME Inv, UNCHANGED idVars
    PROVE  IdType' /\ \A id \in Ids : IdInv(id)'
BY DEF Inv, idVars, IdType, IdInv, Fresh, Ids

LEMMA SendType ==
    ASSUME HttpType, NEW r \in Readings, NEW n \in 1..MaxAttempts, Send(r, n)
    PROVE  /\ sender' \subseteq Post /\ Cardinality(sender') <= 1
           /\ posts' \subseteq Post
           /\ answered' = {}
<1> DEFINE p == [reading |-> r, attempt |-> n]
<1>1. p \in Post
  BY DEF Post
<1>2. sender' = {p} /\ posts' = posts \cup {p} /\ answered' = {}
  BY DEF Send
<1>3. Cardinality({p}) = 1
  BY FS_Singleton
<1> HIDE DEF p
<1> QED BY <1>1, <1>2, <1>3 DEF HttpType

LEMMA FailureKeeps ==
    ASSUME HttpType, NEW p \in sender, Failure(p), UNCHANGED adapter
    PROVE  HttpType' /\ answered' = {} /\ forwarded' = forwarded
<1>1. p.reading \in Readings /\ p.attempt \in 1..MaxAttempts
  BY DEF HttpType, Post
<1>2. CASE p.attempt < MaxAttempts
  <2>1. p.attempt + 1 \in 1..MaxAttempts
    BY <1>1, <1>2, IngestAssumption
  <2>2. Send(p.reading, p.attempt + 1) /\ forwarded' = forwarded
    BY <1>2 DEF Failure
  <2> QED BY <1>1, <2>1, <2>2, SendType DEF HttpType
<1>3. CASE ~(p.attempt < MaxAttempts)
  <2>1. Cardinality({}) = 0
    BY FS_EmptySet
  <2>2. sender' = {} /\ answered' = {} /\ posts' = posts /\ forwarded' = forwarded
    BY <1>3 DEF Failure
  <2> QED BY <2>1, <2>2 DEF HttpType
<1> QED BY <1>2, <1>3

LEMMA ConnectivityStep ==
    ASSUME Inv, Connectivity
    PROVE  Inv'
<1>1. UNCHANGED idVars
  BY DEF Connectivity, Enqueue, Take, Success, BadStatus, TimesOut, Reload, idVars
<1>2. IdType' /\ \A id \in Ids : IdInv(id)'
  BY <1>1, IdsUntouched
<1>3. record' = record
  BY <1>1 DEF idVars
<1>4. ASSUME NEW r \in arriving, Enqueue(r)
      PROVE  HttpType' /\ AnswersInv' /\ ForwardedIsStored'
  <2>1. r \in Readings
    BY DEF Inv, HttpType
  <2>2. queue' \in Seq(Readings) /\ Len(queue') <= QueueSize
    BY <1>4, <2>1, IngestAssumption DEF Inv, HttpType, Enqueue
  <2> QED BY <1>3, <1>4, <2>2 DEF Inv, HttpType, Enqueue, AnswersInv, ForwardedIsStored
<1>5. CASE Take
  <2>1. Head(queue) \in Readings /\ Tail(queue) \in Seq(Readings) /\ Len(Tail(queue)) <= QueueSize
    BY <1>5, IngestAssumption DEF Take, Inv, HttpType
  <2>2. 1 \in 1..MaxAttempts
    BY IngestAssumption
  <2>3. sender' \subseteq Post /\ Cardinality(sender') <= 1 /\ posts' \subseteq Post /\ answered' = {}
    BY <1>5, <2>1, <2>2, SendType DEF Take, Inv
  <2>4. queue' = Tail(queue) /\ arriving' = arriving /\ forwarded' = forwarded
    BY <1>5 DEF Take
  <2>5. HttpType'
    BY <2>1, <2>3, <2>4 DEF Inv, HttpType
  <2>6. AnswersInv'
    BY <2>3 DEF AnswersInv
  <2> QED BY <1>2, <1>3, <2>4, <2>5, <2>6 DEF Inv, ForwardedIsStored
<1>6. ASSUME NEW p \in sender, Success(p)
      PROVE  HttpType' /\ AnswersInv' /\ ForwardedIsStored'
  <2>1. p.reading \in Readings
    BY DEF Inv, HttpType, Post
  <2>2. \E id \in Ids : record[id] = p.reading
    <3>1. [post |-> p, ok |-> TRUE] \in answered
      BY <1>6 DEF Success
    <3> QED BY <3>1 DEF Inv, AnswersInv
  <2>3. Cardinality({}) = 0
    BY FS_EmptySet
  <2> QED BY <1>3, <1>6, <2>1, <2>2, <2>3 DEF Success, Inv, HttpType, AnswersInv, ForwardedIsStored
<1>7. ASSUME NEW p \in sender, BadStatus(p) \/ TimesOut(p)
      PROVE  HttpType' /\ AnswersInv' /\ ForwardedIsStored'
  <2>1. HttpType' /\ answered' = {} /\ forwarded' = forwarded
    BY <1>7, FailureKeeps DEF BadStatus, TimesOut, Inv
  <2> QED BY <1>3, <2>1 DEF Inv, AnswersInv, ForwardedIsStored
<1>8. CASE Reload
  <2>1. <<>> \in Seq(Readings) /\ Len(<<>>) <= QueueSize
    BY IngestAssumption
  <2>2. queue' = <<>> /\ UNCHANGED <<arriving, sender, posts, answered, forwarded>>
    BY <1>8 DEF Reload
  <2>3. HttpType'
    BY <2>1, <2>2 DEF Inv, HttpType
  <2> QED BY <1>2, <1>3, <2>2, <2>3 DEF Inv, AnswersInv, ForwardedIsStored
<1> QED BY <1>2, <1>4, <1>5, <1>6, <1>7, <1>8 DEF Connectivity, Inv

---------------------------------------------------------------------------
(* The handler *)

LEMMA AnswerKeeps ==
    ASSUME HttpType, NEW p \in posts, NEW ok \in BOOLEAN,
           Answer(p, ok), posts' = posts \ {p}, UNCHANGED <<adapter, forwarder>>
    PROVE  /\ HttpType'
           /\ \A a \in answered' : a \in answered \/ (a.post = p /\ a.ok = ok)
<1>1. CASE p \in sender
  <2>1. [post |-> p, ok |-> ok] \in [post : sender, ok : BOOLEAN]
    BY <1>1
  <2> QED BY <1>1, <2>1 DEF Answer, HttpType
<1>2. CASE p \notin sender
  BY <1>2 DEF Answer, HttpType
<1> QED BY <1>1, <1>2

LEMMA HandlerStep ==
    ASSUME Inv, NEW p \in posts, Refuse(p) \/ Reject(p) \/ Accept(p) \/ Break(p)
    PROVE  Inv'
<1>1. p \in Post /\ p.reading \in Readings
  BY DEF Inv, HttpType, Post
<1>2. nextId <= MaxIds => nextId \in Ids /\ nextId + 1 \in 1..(MaxIds + 1) /\ Fresh(nextId)
  BY IngestAssumption DEF Inv, IdType, Ids, IdInv
<1>3. CASE Refuse(p)
  <2>1. HttpType' /\ \A a \in answered' : a.ok => a \in answered
    BY <1>3, AnswerKeeps DEF Refuse, Inv
  <2>2. IdType' /\ \A id \in Ids : IdInv(id)'
    BY <1>3, IdsUntouched DEF Refuse, idVars
  <2> QED BY <1>3, <2>1, <2>2 DEF Refuse, Inv, AnswersInv, ForwardedIsStored
<1>4. CASE Reject(p)
  <2>1. HttpType' /\ \A a \in answered' : a.ok => a \in answered
    BY <1>4, AnswerKeeps DEF Reject, NewId, Inv
  <2>2. /\ nextId <= MaxIds /\ nextId' = nextId + 1
        /\ audit' = [audit EXCEPT ![nextId] = "pending"]
        /\ UNCHANGED <<record, retries, tasks, dropped, run, graph, crashes, forwarded>>
    BY <1>4 DEF Reject, NewId, Recorded
  <2>3. place' \in [Ids -> Nat]
    <3>1. IsFiniteSet(Ids)
      BY FS_Interval, IngestAssumption DEF Ids
    <3> DEFINE audited == Cardinality({i \in Ids : audit[i] # "none"})
    <3>2. audited \in Nat
      BY <3>1, FS_Subset, FS_CardinalityType
    <3>3. place' = [place EXCEPT ![nextId] = 1 + audited]
      BY <1>4 DEF Reject, Recorded
    <3> HIDE DEF audited
    <3>4. 1 + audited \in Nat
      BY <3>2
    <3>5. PICK c \in Nat : place' = [place EXCEPT ![nextId] = c]
      BY <3>3, <3>4, Zenon
    <3>6. place \in [Ids -> Nat]
      BY DEF Inv, IdType
    <3> QED BY <3>5, <3>6
  <2>4. IdType'
    BY <1>2, <2>2, <2>3 DEF Inv, IdType
  <2>5. ASSUME NEW id \in Ids PROVE IdInv(id)'
    <3>1. IdInv(id) /\ IdInv(nextId) /\ nextId \in Ids /\ Fresh(nextId)
      BY <1>2, <2>2 DEF Inv
    <3>2. CASE id = nextId
      <4>1. audit'[id] = "pending" /\ record'[id] = NoRow /\ graph'[id] = 0
        BY <2>2, <3>1, <3>2 DEF Inv, IdType, Fresh
      <4>2. id \notin tasks' \cup dropped' \cup run'
        BY <2>2, <3>1, <3>2 DEF IdInv, Fresh
      <4>3. /\ retries'[id] \in Nat /\ crashes' \in Nat
            /\ id \in Nat /\ nextId' \in Nat /\ ~(id >= nextId')
        BY <2>2, <3>2, IngestAssumption DEF Inv, IdType, Ids
      <4>4. retries'[id] = 0 /\ RetryLimit > 0
        BY <2>2, <3>1, <3>2, IngestAssumption DEF IdInv, Fresh
      <4>5. graph'[id] <= 1 + retries'[id] + crashes'
        <5>1. graph'[id] = 0 /\ retries'[id] = 0 /\ crashes' \in Nat
          BY <4>1, <4>3, <4>4
        <5>2. \A g, r, c \in Nat : g = 0 /\ r = 0 => g <= 1 + r + c
          OBVIOUS
        <5> QED BY <5>1, <5>2
      <4>6. audit'[id] # "none" /\ audit'[id] # "written"
        BY <4>1
      <4> QED BY <4>1, <4>2, <4>3, <4>5, <4>6 DEF IdInv
    <3>3. CASE id # nextId
      <4>1. audit'[id] = audit[id] /\ (id >= nextId' => id >= nextId)
        BY <2>2, <3>3 DEF Inv, IdType, Ids
      <4> QED BY <2>2, <3>1, <4>1 DEF IdInv, Fresh
    <3> QED BY <3>2, <3>3
  <2> QED BY <2>1, <2>2, <2>4, <2>5 DEF Inv, AnswersInv, ForwardedIsStored
<1>5. CASE Accept(p) \/ Break(p)
  <2>1. HttpType' /\ \A a \in answered' : a \in answered \/ a.post = p
    BY <1>5, AnswerKeeps DEF Accept, Break, NewId, Inv
  <2>2. /\ nextId <= MaxIds /\ nextId' = nextId + 1
        /\ record' = [record EXCEPT ![nextId] = p.reading]
        /\ \/ tasks' = tasks \cup {nextId} /\ dropped' = dropped
           \/ tasks' = tasks /\ dropped' = dropped \cup {nextId}
        /\ p.reading \in Readings \ Rejected
        /\ UNCHANGED <<audit, retries, place, run, graph, crashes, forwarded>>
    BY <1>1, <1>5 DEF Accept, Break, NewId
  <2>3. IdType'
    BY <1>2, <2>2 DEF Inv, IdType
  <2>4. ASSUME NEW id \in Ids PROVE IdInv(id)'
    <3>1. IdInv(id) /\ nextId \in Ids /\ Fresh(nextId)
      BY <1>2, <2>2 DEF Inv
    <3> QED BY <1>2, <2>2, <3>1, IngestAssumption DEF Inv, IdType, Ids, IdInv, Fresh
  <2>5. \A r \in Readings : (\E id \in Ids : record[id] = r) => \E id \in Ids : record'[id] = r
    <3> SUFFICES ASSUME NEW r \in Readings, NEW id \in Ids, record[id] = r
                 PROVE  \E i \in Ids : record'[i] = r
      OBVIOUS
    <3>1. record[nextId] = NoRow /\ nextId \in Ids
      BY <1>2, <2>2 DEF Fresh
    <3>2. id # nextId
      BY <3>1, IngestAssumption
    <3> QED BY <2>2, <3>2 DEF Inv, IdType
  <2>6. \E id \in Ids : record'[id] = p.reading
    BY <1>2, <2>2 DEF Inv, IdType
  <2>7. AnswersInv'
    <3> SUFFICES ASSUME NEW a \in answered', a.ok
                 PROVE  \E id \in Ids : record'[id] = a.post.reading
      BY DEF AnswersInv
    <3>1. CASE a \in answered
      <4>1. a.post.reading \in Readings
        BY <3>1 DEF Inv, HttpType, Post
      <4> QED BY <2>5, <3>1, <4>1 DEF Inv, AnswersInv
    <3> QED BY <2>1, <2>6, <3>1
  <2>8. ForwardedIsStored'
    BY <2>2, <2>5 DEF Inv, HttpType, ForwardedIsStored
  <2> QED BY <2>1, <2>3, <2>4, <2>7, <2>8 DEF Inv
<1> QED BY <1>3, <1>4, <1>5

---------------------------------------------------------------------------
(* Background writes, retries and crashes *)

\* Whatever becomes of a write, the graph gains at most one observation.
LEMMA WrittenKeeps ==
    ASSUME IdType, NEW id \in Ids, NEW outcome \in Outcomes, Written(id, outcome)
    PROVE  /\ graph' \in [Ids -> Nat]
           /\ \A i \in Ids : i # id => graph'[i] = graph[i]
           /\ graph'[id] \in {graph[id], graph[id] + 1}
           /\ outcome = "ok" => graph'[id] = graph[id] + 1
BY DEF IdType, Written, Outcomes

LEMMA BackgroundStep ==
    ASSUME Inv, NEW id \in tasks, BackgroundWrite(id)
    PROVE  Inv'
<1>1. PICK outcome \in Outcomes : WriteAndAudit(id, outcome)
  BY DEF BackgroundWrite
<1>2. id \in Ids
  BY DEF Inv, IdType
<1>3. /\ tasks' = tasks \ {id} /\ Written(id, outcome)
      /\ audit' = [audit EXCEPT ![id] = Audited(outcome)]
      /\ UNCHANGED <<adapter, forwarder, http, store, retries, dropped, run, crashes>>
  BY <1>1 DEF WriteAndAudit, Recorded
<1>4. place' \in [Ids -> Nat]
  <2>1. IsFiniteSet(Ids)
    BY FS_Interval, IngestAssumption DEF Ids
  <2>2. Cardinality({i \in Ids : audit[i] # "none"}) \in Nat
    BY <2>1, FS_Subset, FS_CardinalityType
  <2> QED BY <1>1, <2>2 DEF WriteAndAudit, Recorded, Inv, IdType
<1>5. Audited(outcome) \in {"pending", "written"}
  BY DEF Audited
<1>6. IdType'
  BY <1>2, <1>3, <1>4, <1>5, WrittenKeeps DEF Inv, IdType
<1>7. ASSUME NEW i \in Ids PROVE IdInv(i)'
  <2>1. IdInv(i) /\ IdInv(id)
    BY <1>2 DEF Inv
  <2>2. CASE i = id
    <3>1. /\ graph[i] = 0 /\ record[i] # NoRow /\ i \notin dropped /\ retries[i] = 0
          /\ i \notin run /\ ~(i >= nextId) /\ record[i] \notin Rejected
      BY <2>1, <2>2 DEF IdInv, Fresh
    <3>2. graph'[i] \in {0, 1} /\ (outcome = "ok" => graph'[i] = 1)
      BY <1>2, <1>3, <2>2, <3>1, WrittenKeeps DEF Inv, IdType
    <3>3. audit'[i] = Audited(outcome) /\ i \notin tasks'
      BY <1>2, <1>3, <2>2 DEF Inv, IdType
    <3>4. UNCHANGED <<record, nextId, dropped, run, retries, crashes>>
      BY <1>3
    <3>5. crashes \in Nat /\ RetryLimit \in Nat
      BY IngestAssumption DEF Inv, IdType
    <3>6. CASE outcome = "ok"
      <4>1. audit'[i] = "written" /\ graph'[i] = 1
        BY <3>2, <3>3, <3>6 DEF Audited
      <4> QED BY <3>1, <3>3, <3>4, <3>5, <4>1 DEF IdInv
    <3>7. CASE outcome # "ok"
      <4>1. audit'[i] = "pending" /\ graph'[i] <= 1
        BY <3>2, <3>3, <3>7 DEF Audited
      <4> QED BY <3>1, <3>2, <3>3, <3>4, <3>5, <4>1 DEF IdInv
    <3> QED BY <3>6, <3>7
  <2>3. CASE i # id
    BY <1>2, <1>3, <2>1, <2>3, WrittenKeeps DEF Inv, IdType, Ids, IdInv, Fresh
  <2> QED BY <2>2, <2>3
<1> QED BY <1>3, <1>6, <1>7 DEF Inv, HttpType, AnswersInv, ForwardedIsStored

LEMMA RetryStep ==
    ASSUME Inv, RetryLoop
    PROVE  Inv'
<1>1. CASE StartRun
  <2>1. /\ run' \subseteq {i \in Ids : audit[i] = "pending" /\ retries[i] < RetryLimit}
        /\ UNCHANGED <<adapter, forwarder, http, store, tasks, dropped, prov, graph, crashes>>
    BY <1>1 DEF StartRun, Oldest, PendingRetries
  <2>2. IdType'
    BY <2>1 DEF Inv, IdType
  <2>3. ASSUME NEW i \in Ids PROVE IdInv(i)'
    BY <2>1 DEF Inv, IdInv, Fresh
  <2> QED BY <2>1, <2>2, <2>3 DEF Inv, HttpType, AnswersInv, ForwardedIsStored
<1>2. ASSUME NEW id \in run, RetryFindsNothing(id)
      PROVE  Inv'
  <2>1. /\ run' = run \ {id}
        /\ retries' = [retries EXCEPT ![id] = @ + 1]
        /\ UNCHANGED <<adapter, forwarder, http, store, tasks, dropped, audit, place, graph, crashes>>
    BY <1>2 DEF RetryFindsNothing, Increment
  <2>2. id \in Ids /\ audit[id] = "pending" /\ retries[id] < RetryLimit
    BY DEF Inv, IdType, IdInv
  <2>3. IdType'
    BY <2>1, <2>2, IngestAssumption DEF Inv, IdType
  <2>4. ASSUME NEW i \in Ids PROVE IdInv(i)'
    <3>1. IdInv(i)
      BY DEF Inv
    <3> QED BY <2>1, <2>2, <3>1 DEF Inv, IdType, IdInv, Fresh
  <2> QED BY <2>1, <2>3, <2>4 DEF Inv, HttpType, AnswersInv, ForwardedIsStored
<1>3. ASSUME NEW id \in run, NEW outcome \in Outcomes, RetryWrites(id, outcome)
      PROVE  Inv'
  <2>1. /\ run' = run \ {id} /\ Written(id, outcome) /\ record[id] # NoRow
        /\ UNCHANGED <<adapter, forwarder, http, store, tasks, dropped, place, crashes>>
    BY <1>3 DEF RetryWrites, Increment, MarkWritten
  <2>2. \/ /\ outcome = "ok" /\ audit' = [audit EXCEPT ![id] = "written"]
           /\ UNCHANGED retries
        \/ /\ retries' = [retries EXCEPT ![id] = @ + 1]
           /\ UNCHANGED audit
    BY <1>3 DEF RetryWrites, Increment, MarkWritten
  <2>3. id \in Ids /\ audit[id] = "pending" /\ retries[id] < RetryLimit
    BY DEF Inv, IdType, IdInv
  <2>4. IdType'
    BY <2>1, <2>2, <2>3, WrittenKeeps, IngestAssumption DEF Inv, IdType
  <2>5. ASSUME NEW i \in Ids PROVE IdInv(i)'
    <3>1. IdInv(i)
      BY DEF Inv
    <3>2. CASE i = id
      <4>1. /\ graph[i] <= 1 + retries[i] + crashes /\ retries[i] < RetryLimit
            /\ audit[i] = "pending" /\ record[i] # NoRow /\ record[i] \notin Rejected
            /\ i \notin tasks /\ i \notin dropped /\ ~(i >= nextId)
        BY <2>1, <2>3, <3>1, <3>2 DEF IdInv, Fresh
      <4>2. /\ graph'[i] \in {graph[i], graph[i] + 1}
            /\ outcome = "ok" => graph'[i] = graph[i] + 1
        BY <2>1, <2>3, <3>2, WrittenKeeps DEF Inv
      <4>3. UNCHANGED <<record, nextId, tasks, dropped, crashes>> /\ i \notin run'
        BY <2>1, <3>2
      <4>4. /\ graph[i] \in Nat /\ retries[i] \in Nat
            /\ crashes \in Nat /\ RetryLimit \in Nat
        BY IngestAssumption DEF Inv, IdType
      <4>5. CASE outcome = "ok" /\ audit' = [audit EXCEPT ![id] = "written"]
        <5>1. audit'[i] = "written"
          BY <3>2, <4>5 DEF Inv, IdType
        <5>2. graph'[i] > 0 /\ graph'[i] <= 1 + RetryLimit + crashes
          BY <4>1, <4>2, <4>4, <4>5
        <5> QED BY <4>1, <4>3, <5>1, <5>2 DEF IdInv
      <4>6. CASE retries' = [retries EXCEPT ![id] = @ + 1] /\ audit' = audit
        <5>1. retries'[i] = retries[i] + 1
          BY <3>2, <4>6 DEF Inv, IdType
        <5>2. graph'[i] <= 1 + retries'[i] + crashes
          BY <4>1, <4>2, <4>4, <5>1
        <5> QED BY <4>1, <4>3, <4>6, <5>2 DEF IdInv
      <4> QED BY <2>2, <4>5, <4>6
    <3>3. CASE i # id
      BY <2>1, <2>2, <2>3, <3>1, <3>3, WrittenKeeps DEF Inv, IdType, IdInv, Fresh
    <3> QED BY <3>2, <3>3
  <2> QED BY <2>1, <2>4, <2>5 DEF Inv, HttpType, AnswersInv, ForwardedIsStored
<1> QED BY <1>1, <1>2, <1>3 DEF RetryLoop

LEMMA CrashStep ==
    ASSUME Inv, Crash
    PROVE  Inv'
<1>1. PICK done \in SUBSET (tasks \cup {id \in run : IsNext(id) /\ record[id] # NoRow}) :
          graph' = [id \in Ids |-> IF id \in done THEN graph[id] + 1 ELSE graph[id]]
  BY DEF Crash
<1>2. /\ crashes < MaxCrashes /\ crashes' = crashes + 1
      /\ posts' = {} /\ answered' = {} /\ tasks' = {} /\ run' = {}
      /\ dropped' = dropped \cup tasks
      /\ UNCHANGED <<adapter, forwarder, store, prov>>
  BY DEF Crash
<1>3. IdType'
  BY <1>1, <1>2, IngestAssumption DEF Inv, IdType
<1>4. ASSUME NEW i \in Ids PROVE IdInv(i)'
  <2>1. IdInv(i)
    BY DEF Inv
  <2>2. i \in done => i \in tasks \/ i \in run
    BY <1>1
  <2>3. graph'[i] = IF i \in done THEN graph[i] + 1 ELSE graph[i]
    BY <1>1
  <2> QED BY <1>2, <2>1, <2>2, <2>3, IngestAssumption, SMTT(20) DEF Inv, IdType, Ids, IdInv, Fresh
<1> QED BY <1>2, <1>3, <1>4 DEF Inv, HttpType, AnswersInv, ForwardedIsStored

---------------------------------------------------------------------------
(* The theorems *)

LEMMA Invariant == Spec => []Inv
<1>1. Init => Inv
  <2> SUFFICES ASSUME Init PROVE Inv
    OBVIOUS
  <2>1. HttpType
    <3>1. Cardinality({}) = 0 /\ <<>> \in Seq(Readings) /\ Len(<<>>) <= QueueSize
      BY FS_EmptySet, IngestAssumption
    <3> QED BY <3>1 DEF Init, HttpType
  <2>2. IdType /\ \A id \in Ids : IdInv(id)
    BY IngestAssumption DEF Init, IdType, IdInv, Fresh, Ids
  <2> QED BY <2>1, <2>2 DEF Init, Inv, AnswersInv, ForwardedIsStored
<1>2. Inv /\ [Next]_vars => Inv'
  <2>1. ASSUME Inv, UNCHANGED vars PROVE Inv'
    <3>1. IdType' /\ \A id \in Ids : IdInv(id)'
      BY <2>1, IdsUntouched DEF vars, idVars
    <3> QED BY <2>1, <3>1 DEF vars, Inv, HttpType, AnswersInv, ForwardedIsStored
  <2> QED BY <2>1, ConnectivityStep, HandlerStep, BackgroundStep, RetryStep, CrashStep
          DEF Next, Handler
<1> QED BY <1>1, <1>2, PTL DEF Spec

\* Every reachable state of the pipeline is well typed: the queue within its
\* size, the retries within their limit.
THEOREM TypeCorrect == Spec => []TypeOK
<1>1. Inv => TypeOK
  BY DEF Inv, HttpType, IdType, TypeOK
<1> QED BY <1>1, Invariant, PTL

\* What the forwarder reports as forwarded is in the store.
THEOREM ForwardedIsStoredHolds == Spec => []ForwardedIsStored
<1>1. Inv => ForwardedIsStored
  BY DEF Inv
<1> QED BY <1>1, Invariant, PTL

\* What the audit calls written is an accepted reading's observation in the
\* graph.
THEOREM WrittenIsInGraphHolds == Spec => []WrittenIsInGraph
<1>1. Inv => WrittenIsInGraph
  BY DEF Inv, IdType, IdInv, WrittenIsInGraph
<1> QED BY <1>1, Invariant, PTL

\* Retries and crashes bound the duplicates of an observation.
THEOREM DuplicatesBoundedHolds == Spec => []DuplicatesBounded
<1>1. Inv => DuplicatesBounded
  BY IngestAssumption DEF Inv, IdType, IdInv, DuplicatesBounded
<1> QED BY <1>1, Invariant, PTL

\* A stored reading is scheduled, dropped or audited, and only one of them.
THEOREM StoredIsTrackedHolds == Spec => []StoredIsTracked
<1>1. Inv => StoredIsTracked
  BY DEF Inv, IdType, IdInv, StoredIsTracked
<1> QED BY <1>1, Invariant, PTL

\* What adapter and audit report as done has been done.
THEOREM ReportsAreTrueHolds == Spec => []ReportsAreTrue
<1> QED BY ForwardedIsStoredHolds, WrittenIsInGraphHolds, PTL DEF ReportsAreTrue
===========================================================================
