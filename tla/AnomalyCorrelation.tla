------------------------- MODULE AnomalyCorrelation -------------------------
(***************************************************************************)
(* From a reading to a correlated alert: the anomaly detector              *)
(* (analytics/anomaly_detector.py), the correlator of anomalies of several *)
(* sensors (analytics/cross_subsystem_correlator.py), and the history that *)
(* the ingest bridge and the analytics API fill.  All of it goes by the    *)
(* clock of the server, not by the stamp of the reading.                   *)
(*                                                                         *)
(* An alert is named after its pattern and its sensors, and a name that    *)
(* has been emitted stays mute until it is acknowledged.  The z-score is   *)
(* arithmetic on reals: with a baseline the verdict is open, without one a *)
(* value inside the limits is never an anomaly.                            *)
(***************************************************************************)
EXTENDS Integers, Sequences, FiniteSets

CONSTANTS
    Streams,           \* the pairs <<sensor, property>> that report
    CorrelationWindow, \* window_seconds
    MinSources,        \* min_sources
    Baseline,          \* readings before there is a z-score
    MaxHistory,        \* _alert_history
    MaxSecond, MaxAnomalies   \* bounds

ASSUME CorrelationAssumption ==
    /\ CorrelationWindow \in Nat /\ MinSources \in Nat \ {0} /\ Baseline \in Nat
    /\ MaxHistory \in Nat \ {0} /\ MaxSecond \in Nat /\ MaxAnomalies \in Nat

VARIABLES
    second,
    baseline,   \* detector._windows: their lengths, up to Baseline
    recent,     \* correlator._recent
    muted,      \* correlator._emitted_ids
    history,    \* _alert_history, oldest first
    told,       \* ids told and not acknowledged since (history)
    wiped,      \* the ids an analytics reset took from the history (history)
    anomalies   \* anomalies so far (bounds the model)

correlationVars == <<second, baseline, recent, muted, history, told, wiped, anomalies>>

Sensor == {s[1] : s \in Streams}

\* _PATTERNS, in the order in which they are tried
Patterns == <<
    [name |-> "fire_risk", required |-> {"co", "temperature"}],
    [name |-> "smouldering", required |-> {"smoke", "co"}],
    [name |-> "gas_accumulation", required |-> {"combustible_gas", "temperature"}],
    [name |-> "unattended_hazard", required |-> {"combustible_gas", "occupancy"}],
    [name |-> "environment_stress", required |-> {"temperature", "humidity"}]>>

AlertId == [pattern : {Patterns[i].name : i \in DOMAIN Patterns} \cup {"multi"},
            sensors : SUBSET Sensor]

Anomaly == [stream : Streams, at : 0..MaxSecond]

---------------------------------------------------------------------------
(* push_anomaly *)

Pruned(now) == {e \in recent : e.at >= now - CorrelationWindow}

SensorsOf(events) == {e.stream[1] : e \in events}
Properties(events) == {e.stream[2] : e \in events}

Matching(events) == {i \in DOMAIN Patterns : Patterns[i].required \subseteq Properties(events)}

\* the first pattern that matches
PatternOf(events) ==
    LET matches == Matching(events)
    IN IF matches = {} THEN "multi"
       ELSE Patterns[CHOOSE i \in matches : \A j \in matches : i <= j].name

\* an alert is due: a known pattern of enough sensors, or three sensors at once
Correlates(events) ==
    /\ Cardinality(SensorsOf(events)) >= MinSources
    /\ Matching(events) # {} \/ Cardinality(SensorsOf(events)) >= 3

IdOf(events) == [pattern |-> PatternOf(events), sensors |-> SensorsOf(events)]

LastHistory(h) == IF Len(h) > MaxHistory THEN Tail(h) ELSE h

Muted(id) == muted \cup {id}

PushAnomaly(stream) ==
    LET events == Pruned(second) \cup {[stream |-> stream, at |-> second]}
        id == IdOf(events)
    IN /\ anomalies < MaxAnomalies
       /\ anomalies' = anomalies + 1
       /\ recent' = events
       /\ IF Correlates(events) /\ id \notin muted
          THEN /\ muted' = Muted(id)
               /\ history' = LastHistory(Append(history,
                      [id |-> id, at |-> second, sources |-> events, first |-> id \notin told]))
               /\ told' = told \cup {id}
               /\ wiped' = wiped \ {id}
          ELSE UNCHANGED <<muted, history, told, wiped>>

---------------------------------------------------------------------------
(* A reading: analyse_after_ingest, analyse_reading *)

HasBaseline(stream) == baseline[stream] >= Baseline

\* may the detector call it an anomaly?
MayBeAnomaly(stream, outside) == outside \/ HasBaseline(stream)

Detect(stream, outside, anomalous) ==
    /\ outside => anomalous
    /\ anomalous => MayBeAnomaly(stream, outside)
    /\ baseline' = [baseline EXCEPT ![stream] = IF @ < Baseline THEN @ + 1 ELSE @]
    /\ IF anomalous THEN PushAnomaly(stream)
       ELSE UNCHANGED <<recent, muted, history, told, wiped, anomalies>>
    /\ UNCHANGED second

\* GET /pending
PendingAnomalies ==
    /\ recent' = Pruned(second)
    /\ UNCHANGED <<second, baseline, muted, history, told, wiped, anomalies>>

\* mutant: the acknowledgement is only answered
NothingCleared(id) == muted

Unmuted(id) == muted \ {id}

\* DELETE /alerts/{id}/acknowledge
Acknowledge(id) ==
    /\ muted' = Unmuted(id)
    /\ told' = told \ {id}
    /\ UNCHANGED <<second, baseline, recent, history, wiped, anomalies>>

\* POST /analytics/reset: the correlator keeps its window and its names
ResetDetector ==
    /\ baseline' = [s \in Streams |-> 0]
    /\ history' = <<>>
    /\ wiped' = wiped \cup muted
    /\ UNCHANGED <<second, recent, muted, told, anomalies>>

SecondPasses ==
    /\ second < MaxSecond /\ second' = second + 1
    /\ UNCHANGED <<baseline, recent, muted, history, told, wiped, anomalies>>

---------------------------------------------------------------------------
CorrelationInit ==
    /\ second = 0
    /\ baseline = [s \in Streams |-> 0]
    /\ recent = {} /\ muted = {} /\ history = <<>>
    /\ told = {} /\ wiped = {} /\ anomalies = 0

CorrelationNext ==
    \/ \E s \in Streams, outside, anomalous \in BOOLEAN : Detect(s, outside, anomalous)
    \/ PendingAnomalies
    \/ \E id \in muted : Acknowledge(id)
    \/ ResetDetector
    \/ SecondPasses

CorrelationSpec == CorrelationInit /\ [][CorrelationNext]_correlationVars

---------------------------------------------------------------------------
(* Properties *)

\* The shape of the windows, the names and the history, which stays bounded.
CorrelationTypeOK ==
    /\ second \in 0..MaxSecond
    /\ baseline \in [Streams -> 0..Baseline]
    /\ recent \subseteq Anomaly
    /\ muted \subseteq AlertId /\ told \subseteq AlertId
    /\ Len(history) <= MaxHistory
    /\ anomalies \in 0..MaxAnomalies

\* An alert rests on anomalies of different sensors no further apart than the
\* window, among them all properties of its pattern.
AlertIsCorrelated ==
    \A i \in DOMAIN history :
        LET alert == history[i]
        IN /\ Cardinality(SensorsOf(alert.sources)) >= MinSources
           /\ alert.id.sensors = SensorsOf(alert.sources)
           /\ \A e \in alert.sources : e.at <= alert.at /\ alert.at - e.at <= CorrelationWindow
           /\ \A j \in DOMAIN Patterns :
                 Patterns[j].name = alert.id.pattern
                   => Patterns[j].required \subseteq Properties(alert.sources)

\* The same alert is not told twice without an acknowledgement in between.
ToldOnce == \A i \in DOMAIN history : history[i].first

\* A name that is mute can be looked up, so that it can be acknowledged, unless
\* a reset emptied the history or newer alerts filled it.
MutedCanBeSeen ==
    \A id \in muted :
        \/ \E i \in DOMAIN history : history[i].id = id
        \/ id \in wiped
        \/ Len(history) = MaxHistory

\* An acknowledged alert is told again when its sensors go wrong again.
AcknowledgedIsTold ==
    [][\A id \in AlertId \ told :
          recent' # recent /\ Correlates(recent') /\ IdOf(recent') = id
             /\ anomalies' > anomalies
          => history' # history]_correlationVars

\* Alerts are told for anomalies that belong together, once until they are
\* acknowledged, and never stay mute unseen.
AlertsCorrelated ==
    /\ [](CorrelationTypeOK /\ AlertIsCorrelated /\ ToldOnce /\ MutedCanBeSeen)
    /\ AcknowledgedIsTold
=============================================================================
