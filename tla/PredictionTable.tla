-------------------------- MODULE PredictionTable --------------------------
(***************************************************************************)
(* The fault predictor (analytics/fault_predictor.py) and the table of its *)
(* predictions (backend/api/prediction.py).  Every reading empties the     *)
(* entry of its series and may fill it again.  The regression is reduced   *)
(* to what it says of the window: towards the threshold, away, or nothing. *)
(* A batch may hold one property twice; stamps may lie in the future.      *)
(***************************************************************************)
EXTENDS Integers, Sequences, FiniteSets

CONSTANTS
    Sensors,       \* device and property
    MinPoints, MaxSamples, MinSpan,   \* MIN_POINTS, MAX_POINTS, MIN_SPAN_S
    PredictionTTL,                    \* PREDICTION_TTL_S
    MaxLate, MaxAhead,   \* how far a stamp may be from the clock
    MaxClock       \* bound on the clock

ASSUME PredictionAssumption ==
    /\ MinPoints \in Nat \ {0} /\ MaxSamples \in Nat /\ MinPoints <= MaxSamples
    /\ MinSpan \in Nat \ {0} /\ PredictionTTL \in Nat /\ MaxLate \in Nat
    /\ MaxAhead \in Nat /\ MaxClock \in Nat

VARIABLES
    clock,
    samples,     \* _series: the stamps of the window
    table,       \* _predictions and _prediction_times, one entry per series or none
    newest,      \* the last batch of the series (history)
    since        \* readings since the reset, up to MinPoints (history)

predictionVars == <<clock, samples, table, newest, since>>

\* What the values of a batch are: over the threshold or not.
Batch == {<<"below">>, <<"breached">>, <<"below", "breached">>, <<"breached", "below">>}

Stamp == 0..MaxClock + MaxAhead

Nothing == [at |-> -1, number |-> 0]
NoBatch == [at |-> -1, number |-> 0, values |-> <<>>]

---------------------------------------------------------------------------
(* FaultPredictor.push *)

KeepLast(w) == IF Len(w) > MaxSamples THEN Tail(w) ELSE w

\* Existing threshold violations are hazards, not forecasts: push returns at once
\* (two older tests still expect a prediction for them).
Predicts(w, value, trend) ==
    /\ value = "below"
    /\ Len(w) >= MinPoints
    /\ w[Len(w)] - w[1] >= MinSpan
    /\ trend = "towards"

---------------------------------------------------------------------------
(* process_reading *)

\* push_measurements: each value enters the window, the last prediction stays
Windows(w, batch, t) ==
    IF Len(batch) = 1 THEN <<KeepLast(Append(w, t))>>
    ELSE <<KeepLast(Append(w, t)), KeepLast(Append(KeepLast(Append(w, t)), t))>>

Push(s, t, batch, trends) ==
    /\ clock - t <= MaxLate /\ t - clock <= MaxAhead
    /\ LET walk == Windows(samples[s], batch, t)
           predicted == \E i \in DOMAIN batch : Predicts(walk[i], batch[i], trends[i])
           number == newest[s].number
       IN /\ samples' = [samples EXCEPT ![s] = walk[Len(walk)]]
          /\ table' = [table EXCEPT ![s] = IF predicted THEN [at |-> t, number |-> 1 - number]
                                           ELSE Nothing]
          /\ newest' = [newest EXCEPT ![s] = [at |-> t, number |-> 1 - number, values |-> batch]]
          /\ since' = [since EXCEPT ![s] = IF @ + Len(batch) > MinPoints THEN MinPoints
                                           ELSE @ + Len(batch)]
    /\ UNCHANGED clock

\* mutant: the table is not cleared
ResetWindowsOnly ==
    /\ samples' = [s \in Sensors |-> <<>>]
    /\ since' = [s \in Sensors |-> 0]
    /\ UNCHANGED <<clock, table, newest>>

\* POST /analytics/reset
ResetPredictions ==
    /\ samples' = [s \in Sensors |-> <<>>]
    /\ table' = [s \in Sensors |-> Nothing]
    /\ since' = [s \in Sensors |-> 0]
    /\ UNCHANGED <<clock, newest>>

ClockTick == clock < MaxClock /\ clock' = clock + 1 /\ UNCHANGED <<samples, table, newest, since>>

\* GET /predictions
Listed == {s \in Sensors : table[s] # Nothing /\ table[s].at >= clock - PredictionTTL}

---------------------------------------------------------------------------
PredictionInit ==
    /\ clock = 0
    /\ samples = [s \in Sensors |-> <<>>]
    /\ table = [s \in Sensors |-> Nothing]
    /\ newest = [s \in Sensors |-> NoBatch]
    /\ since = [s \in Sensors |-> 0]

PredictionNext ==
    \/ \E s \in Sensors, t \in Stamp, batch \in Batch :
          \E trends \in [DOMAIN batch -> {"towards", "away", "none"}] : Push(s, t, batch, trends)
    \/ ResetPredictions
    \/ ClockTick

PredictionSpec == PredictionInit /\ [][PredictionNext]_predictionVars

---------------------------------------------------------------------------
(* Properties *)

\* The shape of the windows and the table; a window never outgrows the deque.
PredictionTypeOK ==
    /\ clock \in 0..MaxClock
    /\ \A s \in Sensors :
          /\ samples[s] \in Seq(Stamp) /\ Len(samples[s]) <= MaxSamples
          /\ table[s].at \in Stamp \cup {-1} /\ table[s].number \in 0..1
          /\ newest[s].values \in Batch \cup {<<>>}
          /\ since[s] \in 0..MinPoints

\* What the endpoint lists was said of the newest readings of the series, some
\* of which were below the threshold, and is not older than the time to live.
\* This is what push does (fault_predictor.py:140-145), against the tests
\* test_prediction_suite.py:46-51 and test_master_audit_regressions.py:105-112.
ListedIsNewest ==
    \A s \in Listed :
        /\ table[s].at = newest[s].at /\ table[s].number = newest[s].number
        /\ \E i \in DOMAIN newest[s].values : newest[s].values[i] = "below"
        /\ clock - table[s].at <= PredictionTTL

\* After a reset a prediction needs a full set of new readings.
ResetStartsOver ==
    \A s \in Sensors : table[s] # Nothing => since[s] >= MinPoints

\* No prediction outlives what it was made of: newer readings, its time to live
\* or a reset.
PredictionsAreCurrent ==
    /\ PredictionTypeOK
    /\ ListedIsNewest
    /\ ResetStartsOver
===========================================================================
