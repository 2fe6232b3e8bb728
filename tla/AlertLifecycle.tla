--------------------------- MODULE AlertLifecycle ---------------------------
(***************************************************************************)
(* The alerts of the backend's store (backend/store.py): a message is      *)
(* stored and each of its measurements judged by its rule                  *)
(* (backend/rules.py) in one SQLite transaction, which raises, repeats or  *)
(* resolves alerts; an operator acknowledges them (api/alerts.py); the     *)
(* thresholds are reloaded at run time (api/innovation_api.py).            *)
(*                                                                         *)
(* insert_sensor_data runs on the event loop without an await, so nothing  *)
(* else touches the alerts while a transaction is open, but it may fail    *)
(* after any of its statements (a locked or full database, a crash).  The  *)
(* order of messages is the order in which they are stored.                *)
(***************************************************************************)
EXTENDS Integers, Sequences, FiniteSets

CONSTANTS
    Devices,
    Types,       \* measurement types
    Alarming,    \* those that RULE_METADATA has a rule for
    Values,      \* measured values
    Thresholds,  \* the thresholds of a rule that may be configured
    Messages,    \* the sequences of measurements a message may carry
    MaxRecords,  \* bound on the messages stored
    Idle         \* no transaction

Measurements == [type : Types, value : Values]

ASSUME AlertAssumption ==
    /\ Alarming \subseteq Types
    /\ Values \subseteq Int /\ Thresholds \subseteq Int
    /\ Messages \subseteq Seq(Measurements)
    /\ MaxRecords \in Nat

VARIABLES
    threshold,  \* ThresholdResolver.threshold_for
    records,    \* the number of rows of sensor_data
    alerts,     \* the rows of the table alerts
    tx,         \* the open transaction: what is left to do and what it sees
    \* history
    breaches,   \* violations committed since the last measurement without one
    episodes    \* runs of violations committed

history == <<breaches, episodes>>
vars == <<threshold, records, alerts, tx, history>>

Keys == Devices \X Types
Status == {"active", "acknowledged", "resolved"}
Row == [key : Keys, status : Status, count : Nat \ {0}, source : Nat]

---------------------------------------------------------------------------
(* rules.py *)

\* evaluate; a rule that looks for values below its threshold is the mirror
\* image, and a measurement without a rule never violates
Violates(m) == m.type \in Alarming /\ m.value > threshold[m.type]

---------------------------------------------------------------------------
(* insert_alert and resolve_alerts, on the rows a transaction sees *)

\* mutant: a closed alert is reused
OpenOrClosed(rows, k) == {i \in 1..Len(rows) : rows[i].key = k}

Open(rows, k) == {i \in 1..Len(rows) : rows[i].key = k /\ rows[i].status # "resolved"}

Raised(rows, k, source) ==
    Append(rows, [key |-> k, status |-> "active", count |-> 1, source |-> source])

Repeated(rows, i, source) ==
    [rows EXCEPT ![i] = [rows[i] EXCEPT !.count = @ + 1, !.source = source]]

\* insert_alert
InsertAlert(rows, k, source) ==
    IF Open(rows, k) = {} THEN {Raised(rows, k, source)}
    ELSE {Repeated(rows, i, source) : i \in Open(rows, k)}

\* mutant: an acknowledged alert stays
ResolveActive(rows, k) ==
    [i \in 1..Len(rows) |->
        IF rows[i].key = k /\ rows[i].status = "active"
        THEN [rows[i] EXCEPT !.status = "resolved"] ELSE rows[i]]

\* resolve_alerts
ResolveAlerts(rows, k) ==
    [i \in 1..Len(rows) |->
        IF i \in Open(rows, k) THEN [rows[i] EXCEPT !.status = "resolved"] ELSE rows[i]]

---------------------------------------------------------------------------
(* insert_sensor_data *)

Begin(d, ms) ==
    /\ tx = Idle /\ records < MaxRecords
    /\ tx' = [device |-> d, left |-> ms, rows |-> alerts,
              breaches |-> breaches, episodes |-> episodes]
    /\ UNCHANGED <<threshold, records, alerts, history>>

Violation(k) ==
    \E rows \in InsertAlert(tx.rows, k, records + 1) :
        tx' = [tx EXCEPT !.left = Tail(@), !.rows = rows,
                  !.breaches[k] = @ + 1,
                  !.episodes[k] = IF tx.breaches[k] = 0 THEN @ + 1 ELSE @]

NoViolation(k) ==
    tx' = [tx EXCEPT !.left = Tail(@), !.rows = ResolveAlerts(@, k), !.breaches[k] = 0]

Judge ==
    /\ tx # Idle /\ tx.left # <<>>
    /\ LET m == Head(tx.left)
           k == <<tx.device, m.type>>
       IN  IF Violates(m) THEN Violation(k) ELSE NoViolation(k)
    /\ UNCHANGED <<threshold, records, alerts, history>>

Commit ==
    /\ tx # Idle /\ tx.left = <<>>
    /\ records' = records + 1 /\ alerts' = tx.rows
    /\ breaches' = tx.breaches /\ episodes' = tx.episodes
    /\ tx' = Idle
    /\ UNCHANGED threshold

\* connection() rolls back a transaction that was not committed
RolledBack == UNCHANGED alerts

Fail ==
    /\ tx # Idle
    /\ tx' = Idle
    /\ RolledBack
    /\ UNCHANGED <<threshold, records, history>>

---------------------------------------------------------------------------
(* The operator and the configuration *)

\* mutant: whatever the alert's status
MayAcknowledgeAny(i) == i \in 1..Len(alerts)

MayAcknowledge(i) == i \in 1..Len(alerts) /\ alerts[i].status = "active"

\* acknowledge_alert; an alert that is not active is answered 404
Acknowledge(i) ==
    /\ tx = Idle /\ MayAcknowledge(i)
    /\ alerts' = [alerts EXCEPT ![i] = [alerts[i] EXCEPT !.status = "acknowledged"]]
    /\ UNCHANGED <<threshold, records, tx, history>>

\* POST /api/v1/innovation/reload
Reload ==
    /\ tx = Idle
    /\ threshold' \in [Types -> Thresholds]
    /\ UNCHANGED <<records, alerts, tx, history>>

---------------------------------------------------------------------------
Init ==
    /\ threshold \in [Types -> Thresholds]
    /\ records = 0 /\ alerts = <<>> /\ tx = Idle
    /\ breaches = [k \in Keys |-> 0] /\ episodes = [k \in Keys |-> 0]

Next ==
    \/ \E d \in Devices, ms \in Messages : Begin(d, ms)
    \/ Judge \/ Commit \/ Fail
    \/ \E i \in 1..Len(alerts) : Acknowledge(i)
    \/ Reload

Spec == Init /\ [][Next]_vars

---------------------------------------------------------------------------
(* Properties *)

\* The shape of the store, and of what an open transaction sees.
TypeOK ==
    /\ threshold \in [Types -> Thresholds]
    /\ records \in Nat
    /\ alerts \in Seq(Row)
    /\ tx \in {Idle} \cup [device : Devices, left : Seq(Measurements), rows : Seq(Row),
                           breaches : [Keys -> Nat], episodes : [Keys -> Nat]]
    /\ breaches \in [Keys -> Nat] /\ episodes \in [Keys -> Nat]

\* A condition has an open alert exactly while its last stored measurement
\* violated its rule, it has only one, acknowledged or not, and
\* occurrence_count counts the violations since it began.
OpenWhileBreached ==
    \A k \in Keys :
        IF breaches[k] = 0 THEN Open(alerts, k) = {}
        ELSE \E i \in 1..Len(alerts) :
                Open(alerts, k) = {i} /\ alerts[i].count = breaches[k]

\* Every run of violations has one alert of its own: none is silent, none is
\* reported twice, and a closed alert is not reopened.
AlertPerEpisode ==
    \A k \in Keys : Cardinality({i \in 1..Len(alerts) : alerts[i].key = k}) = episodes[k]

\* An alert is never deleted and never goes back: the acknowledgement of a
\* list that is stale by now neither reopens a resolved alert nor marks the
\* one that took its place.
StatusForward ==
    [][/\ Len(alerts) <= Len(alerts')
       /\ \A i \in 1..Len(alerts) :
             /\ alerts'[i].key = alerts[i].key
             /\ alerts[i].status = "resolved" => alerts'[i] = alerts[i]
             /\ alerts[i].status = "acknowledged" => alerts'[i].status # "active"]_vars

\* The record an alert names was stored: alerts and reading are committed
\* together or not at all.
SourceStored == \A i \in 1..Len(alerts) : alerts[i].source \in 1..records

\* The alerts account for what was stored: one for every run of violations, by
\* a record that exists.
AlertsAccounted ==
    /\ AlertPerEpisode
    /\ SourceStored
=============================================================================
