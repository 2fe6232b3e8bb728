-------------------------- MODULE ForecastHistory --------------------------
(***************************************************************************)
(* What becomes of a forecast: every reading judges the forecasts that are *)
(* due, enters the rolling window of its series, and may save a new        *)
(* forecast (backend/services/forecast_evaluation.py, called by the ingest *)
(* handler once the reading is stored).  The windows are lost in a restart *)
(* and restored from the stored readings before the server answers: the    *)
(* process restores once, at its start (init_db), so that every later call *)
(* of restore_windows returns at its first guard.                          *)
(*                                                                         *)
(* A handler does not await between storing a reading and judging by it,   *)
(* so a reading is one step; an error in between leaves it stored only.    *)
(* Readings come late, out of order, and from clocks that are ahead.  The  *)
(* regression is arithmetic on reals: here a forecast is there or not,     *)
(* whatever its value.  A stored row has one measurement.                  *)
(***************************************************************************)
EXTENDS Integers, Sequences, FiniteSets

CONSTANTS
    Series,        \* device and property
    Horizon,       \* FORECAST_HORIZON_MINUTES
    SaveInterval,  \* FORECAST_SAVE_INTERVAL_SECONDS
    MaxLag,        \* MAX_EVALUATION_LAG_SECONDS
    Retention,     \* FORECAST_RETENTION_DAYS
    WindowSize,    \* WINDOW_SIZE
    MinSamples,    \* MIN_SAMPLES
    RestoreLimit,  \* LIMIT of restore_windows, over the rows of all series
    MaxDelay,      \* how late a reading may come
    MaxLeadTime,   \* how far its clock may be ahead
    MaxNow, MaxReadings   \* bounds

ASSUME ForecastAssumption ==
    /\ Horizon \in Nat \ {0} /\ SaveInterval \in Nat \ {0} /\ MaxLag \in Nat
    /\ WindowSize \in Nat \ {0} /\ MinSamples \in Nat /\ RestoreLimit \in Nat
    /\ MaxDelay \in Nat /\ MaxLeadTime \in Nat /\ Retention \in Nat
    /\ MaxNow \in Nat /\ MaxReadings \in Nat

VARIABLES
    now,
    stored,    \* sensor_data: the readings in order of arrival
    windows,   \* trend_forecast._series: the stamps of the samples
    forecasts  \* forecast_history

forecastVars == <<now, stored, windows, forecasts>>

\* seen: did the handler get to observe?  (history)
Reading == [series : Series, at : 0..MaxNow, seen : BOOLEAN]

\* after: the number of readings there were when it was saved (history)
Forecast == [series : Series, issued : 0..MaxNow,
             status : {"pending", "evaluated", "missed"}, after : 0..MaxReadings]

---------------------------------------------------------------------------
(* The rolling windows *)

\* the deque forgets its oldest entry, which need not be the oldest sample
Record(w, t) ==
    LET longer == Append(w, t)
    IN IF Len(longer) > WindowSize THEN Tail(longer) ELSE longer

\* ORDER BY timestamp
Precedes(rows, i, j) == rows[i].at < rows[j].at \/ (rows[i].at = rows[j].at /\ i < j)

InOrder(rows, P) ==
    CHOOSE o \in [1..Cardinality(P) -> P] : \A i, j \in DOMAIN o : i < j => Precedes(rows, o[i], o[j])

\* mutant: the oldest rows come first
OldestRows(rows, P, n) == {i \in P : Cardinality({j \in P : Precedes(rows, j, i)}) < n}

\* ORDER BY timestamp DESC LIMIT n
NewestRows(rows, P, n) == {i \in P : Cardinality({j \in P : Precedes(rows, i, j)}) < n}

\* What is stamped at the cutoff or ahead of it is not restored.
Earlier(rows, cutoff) == {i \in DOMAIN rows : rows[i].at < cutoff}

\* the rows that the query returns, of whatever series
Fetched(rows, cutoff) == NewestRows(rows, Earlier(rows, cutoff), RestoreLimit)

\* a series takes those of its own until its bucket is full
Bucket(rows, s, cutoff) ==
    NewestRows(rows, {i \in Fetched(rows, cutoff) : rows[i].series = s}, WindowSize)

\* restore_windows: they are recorded oldest first
Restorable(rows, s, cutoff) ==
    LET order == InOrder(rows, Bucket(rows, s, cutoff))
    IN [k \in DOMAIN order |-> rows[order[k]].at]

\* trend_forecast.forecast has samples enough, and not all of one moment
Predictable(w) ==
    /\ Len(w) >= MinSamples
    /\ \E i, j \in DOMAIN w : w[i] # w[j]

---------------------------------------------------------------------------
(* observe *)

Due(f, s, t) == f.series = s /\ f.status = "pending" /\ f.issued + Horizon <= t

Verdict(f, t) == IF t - (f.issued + Horizon) > MaxLag THEN "missed" ELSE "evaluated"

\* _evaluate_due
Judged(s, t) ==
    {IF Due(f, s, t) THEN [f EXCEPT !.status = Verdict(f, t)] ELSE f : f \in forecasts}

\* the newest forecast of the series is old enough
Spaced(s, t, rows) ==
    \A f \in rows : f.series = s => t - f.issued >= SaveInterval

\* _persist_snapshot; old forecasts of every series are dropped
Persisted(s, t, rows) ==
    {f \in rows \cup {[series |-> s, issued |-> t, status |-> "pending",
                       after |-> Len(stored) + 1]} : f.issued >= t - Retention}

Stores(s, t, seen) ==
    /\ Len(stored) < MaxReadings
    /\ t \in now - MaxDelay..now + MaxLeadTime
    /\ stored' = Append(stored, [series |-> s, at |-> t, seen |-> seen])

Observe(s, t) ==
    /\ Stores(s, t, TRUE)
    /\ windows' = [windows EXCEPT ![s] = Record(windows[s], t)]
    /\ LET rows == Judged(s, t)
       IN forecasts' = IF Predictable(windows'[s]) /\ Spaced(s, t, rows)
                       THEN Persisted(s, t, rows) ELSE rows
    /\ UNCHANGED now

\* an error between the insert and observe
StoreOnly(s, t) == Stores(s, t, FALSE) /\ UNCHANGED <<now, windows, forecasts>>

\* POST /analytics/reset
ResetWindows ==
    /\ windows' = [s \in Series |-> <<>>]
    /\ UNCHANGED <<now, stored, forecasts>>

\* A crash or a stop, and the start of the next process: init_db restores.
Reboot ==
    /\ windows' = [s \in Series |-> Restorable(stored, s, now)]
    /\ UNCHANGED <<now, stored, forecasts>>

ForecastTick == now < MaxNow /\ now' = now + 1 /\ UNCHANGED <<stored, windows, forecasts>>

---------------------------------------------------------------------------
ForecastInit ==
    /\ now = 0 /\ stored = <<>> /\ forecasts = {}
    /\ windows = [s \in Series |-> <<>>]

ForecastNext ==
    \/ \E s \in Series, t \in 0..MaxNow : Observe(s, t) \/ StoreOnly(s, t)
    \/ ResetWindows
    \/ Reboot
    \/ ForecastTick

ForecastSpec == ForecastInit /\ [][ForecastNext]_forecastVars

---------------------------------------------------------------------------
(* Properties *)

\* The shape of the tables and the windows, which never outgrow the deque.
ForecastTypeOK ==
    /\ now \in 0..MaxNow
    /\ stored \in Seq(Reading) /\ Len(stored) <= MaxReadings
    /\ \A s \in Series : windows[s] \in Seq(0..MaxNow) /\ Len(windows[s]) <= WindowSize
    /\ forecasts \subseteq Forecast

\* The readings that a forecast can be judged by, in order of arrival.
Judges(f) ==
    {i \in f.after + 1..Len(stored) :
        /\ stored[i].series = f.series /\ stored[i].seen
        /\ stored[i].at >= f.issued + Horizon}

\* The first reading to arrive from the target time on decides about a forecast,
\* for good: in time it is evaluated, late it is missed, and until then pending.
\* A delayed reading of the right moment that comes afterwards changes nothing.
JudgedByFirst ==
    \A f \in forecasts :
        LET judges == Judges(f)
        IN IF judges = {} THEN f.status = "pending"
           ELSE LET first == CHOOSE i \in judges : \A j \in judges : i <= j
                IN f.status = IF stored[first].at <= f.issued + Horizon + MaxLag
                              THEN "evaluated" ELSE "missed"

\* Readings out of order do not put two forecasts of a series close together.
SavedApart ==
    \A f, g \in forecasts :
        f.series = g.series /\ f.issued < g.issued => g.issued - f.issued >= SaveInterval

\* The number of pending forecasts of a series stays bounded, however long it
\* is silent.
PendingBounded ==
    \A s \in Series :
        LET pending == {f \in forecasts : f.series = s /\ f.status = "pending"}
        IN (Cardinality(pending) - 1) * SaveInterval < Horizon

InWindow(w, t) == Cardinality({i \in DOMAIN w : w[i] = t})

InTable(rows, s, t) == Cardinality({i \in DOMAIN rows : rows[i].series = s /\ rows[i].at = t})

\* No sample is in a window twice: a stamp is there at most as often as stored.
NoSampleTwice ==
    \A s \in Series : \A t \in 0..MaxNow : InWindow(windows[s], t) <= InTable(stored, s, t)

\* rows of whatever series that a restart prefers to an older one
Between(rows, t, cutoff) == {i \in DOMAIN rows : t <= rows[i].at /\ rows[i].at < cutoff}

\* in the order of their stamps, none from the cutoff on, and nothing stored is
\* missing unless the window is full of what is no older, or the query was
HoldsLatest(w, rows, s, cutoff) ==
    /\ \A i, j \in DOMAIN w : i < j => w[i] <= w[j]
    /\ \A i \in DOMAIN w : w[i] < cutoff
    /\ \A t \in 0..cutoff - 1 :
          \/ InWindow(w, t) = InTable(rows, s, t)
          \/ Len(w) = WindowSize /\ t <= w[1]
          \/ Cardinality(Between(rows, t, cutoff)) > RestoreLimit

\* A process starts with the latest of what is stored before that moment, of
\* every series, complete up to the size of a window and the limit of the query.
RestoredIsLatest ==
    [][Reboot => \A s \in Series : HoldsLatest(windows'[s], stored, s, now)]_forecastVars

\* Late and reordered readings, errors and restarts leave every forecast judged
\* once and for good, and every window with the samples it would have had.
ForecastsSettledOnce ==
    /\ [](ForecastTypeOK /\ JudgedByFirst /\ SavedApart /\ PendingBounded /\ NoSampleTwice)
    /\ RestoredIsLatest
===========================================================================
