---------------------------- MODULE DeviceHealth ----------------------------
(***************************************************************************)
(* The health row of a device (backend/services/device_health.py), which   *)
(* the ingest handlers and the health endpoint write, and the diagnosis    *)
(* that backend/api/ops.py makes of it and of the time the device was last *)
(* seen.  A row is written in one transaction of one handler, so a write   *)
(* is one step.  Stamps are the device's: nothing checks that they are not *)
(* ahead of the server's clock.  Labels and advice are left out.           *)
(***************************************************************************)
EXTENDS Integers, FiniteSets

CONSTANTS
    StatusWords, ErrorWords, SensorWords,   \* the values that devices send
    FreshSeconds,                           \* FRESH_SECONDS
    MaxLateness, MaxLead,                   \* how old the stamp of a reading may be, how far ahead
    MaxHealthClock                          \* bound on the clock

ASSUME HealthAssumption ==
    /\ StatusWords \subseteq Nat /\ ErrorWords \subseteq Nat /\ SensorWords \subseteq Nat
    /\ FreshSeconds \in Nat /\ MaxLateness \in Nat
    /\ MaxLead \in Nat /\ MaxHealthClock \in Nat

VARIABLES
    healthClock,
    row,        \* device_health of the device
    stamp,      \* its newest observation in the device registry, -1 without any
    lastFull,   \* the last complete status block (history)
    contact,    \* when the device was last heard of (history)
    lead        \* how far its clock was ever ahead (history)

healthVars == <<healthClock, row, stamp, lastFull, contact, lead>>

Field == {"device_status", "error_code", "sensor_status"}

Sent(field) == CASE field = "device_status" -> StatusWords
                 [] field = "error_code" -> ErrorWords
                 [] field = "sensor_status" -> SensorWords

\* What a message says of the three fields: all, some or none of them.
Report == UNION {{b \in [fields -> StatusWords \cup ErrorWords \cup SensorWords] :
                     \A f \in fields : b[f] \in Sent(f)} : fields \in SUBSET Field}

NoWords == [f \in Field |-> -1]

---------------------------------------------------------------------------
(* record_health *)

Width == 65536

DeviceKey(word) ==
    CASE word = 0 -> "normal" [] word = 1 -> "starting" [] word = 2 -> "degraded"
      [] word = 3 -> "fault" [] word = 4 -> "maintenance" [] OTHER -> "unknown"

SensorKey(word) ==
    CASE word = 0 -> "ok" [] word = 1 -> "warming_up" [] word = 2 -> "drifting"
      [] word = 3 -> "disconnected" [] word = 4 -> "out_of_range" [] OTHER -> "unknown"

ErrorKey(word) ==
    CASE word = 0 -> "none" [] word = 1 -> "read_timeout" [] word = 2 -> "checksum"
      [] word = 3 -> "wifi_lost" [] word = 4 -> "low_voltage" [] word = 5 -> "calibration_due"
      [] OTHER -> "unknown"

\* mutant: the words that are there are decoded
DecodedPartly(report) ==
    [f \in Field |-> IF f \in DOMAIN report THEN report[f] % Width ELSE -1]

\* three words or none, sixteen bits each
Decoded(report) ==
    IF DOMAIN report = Field THEN [f \in Field |-> report[f] % Width] ELSE NoWords

\* COALESCE
Coalesced(words) ==
    [f \in Field |-> IF words[f] = -1 THEN row[f] ELSE words[f]]

Complete(words) == \A f \in Field : words[f] # -1

RecordHealth(report) ==
    /\ row' = Coalesced(Decoded(report))
    /\ lastFull' = IF DOMAIN report = Field THEN report ELSE lastFull
    /\ contact' = healthClock

\* The ingest handlers: the registry goes by the stamp of the reading.
IngestReport(report, at) ==
    /\ healthClock - at <= MaxLateness /\ at - healthClock <= MaxLead
    /\ stamp' = IF at > stamp THEN at ELSE stamp
    /\ lead' = IF at - healthClock > lead THEN at - healthClock ELSE lead
    /\ RecordHealth(report)
    /\ UNCHANGED healthClock

\* POST /devices/{id}/health
ReportHealth(report) ==
    /\ DOMAIN report = Field /\ \A f \in Field : report[f] < Width
    /\ RecordHealth(report)
    /\ UNCHANGED <<healthClock, stamp, lead>>

HealthTick ==
    /\ healthClock < MaxHealthClock /\ healthClock' = healthClock + 1
    /\ UNCHANGED <<row, stamp, lastFull, contact, lead>>

---------------------------------------------------------------------------
(* What the operator is shown: devices_detail, enrich, diagnose *)

\* reg.last_seen or health.last_seen
LastSeen == IF stamp # -1 THEN stamp ELSE contact

\* an age below zero is fresh
Reachable == LastSeen # -1 /\ healthClock - LastSeen < FreshSeconds

Known == Complete(row)

Diagnosis ==
    LET sensor == IF Known THEN SensorKey(row["sensor_status"]) ELSE "none"
        error == IF Known THEN ErrorKey(row["error_code"]) ELSE "none"
        device == IF Known THEN DeviceKey(row["device_status"]) ELSE "none"
    IN IF ~Reachable THEN (IF error = "wifi_lost" THEN "network" ELSE "unreachable")
       ELSE IF sensor \in {"disconnected", "out_of_range"} THEN "sensor"
       ELSE IF sensor = "drifting" \/ error = "calibration_due" THEN "calibration"
       ELSE IF error = "low_voltage" THEN "power"
       ELSE IF device = "fault" THEN "device"
       ELSE IF sensor = "warming_up" THEN "warming_up"
       ELSE IF Known THEN "healthy" ELSE "unknown"

---------------------------------------------------------------------------
HealthInit ==
    /\ healthClock = 0
    /\ row = NoWords /\ stamp = -1
    /\ lastFull = NoWords /\ contact = -1 /\ lead = 0

HealthNext ==
    \/ \E report \in Report, at \in 0..MaxHealthClock + MaxLead : IngestReport(report, at)
    \/ \E report \in Report : ReportHealth(report)
    \/ HealthTick

HealthSpec == HealthInit /\ [][HealthNext]_healthVars

---------------------------------------------------------------------------
(* Properties *)

\* The shape of the row: words of sixteen bits.
HealthTypeOK ==
    /\ healthClock \in 0..MaxHealthClock
    /\ \A f \in Field : row[f] \in -1..Width - 1
    /\ stamp \in -1..healthClock + MaxLead /\ contact \in -1..healthClock
    /\ lead \in 0..MaxLead

\* The three words of a row were sent together, in the last complete report:
\* messages with some of the words, or none, in between do not mix theirs in.
TripleIsOneReport ==
    \A f \in Field : row[f] = IF lastFull[f] = -1 THEN -1 ELSE lastFull[f] % Width

\* A device that has fallen silent is shown as reachable for no longer than the
\* freshness time and what its clock was ahead by, whatever stamps its late
\* readings carry: with a clock that is not ahead, for the freshness time only.
SilentIsUnreachable ==
    (contact = -1 \/ healthClock - contact >= FreshSeconds + lead) => ~Reachable

\* A reachable device that last reported a fault, or a sensor that is absent,
\* out of range or drifting, is not called healthy nor put down to warming up.
FaultIsDiagnosed ==
    /\ Reachable /\ Known
    /\ DeviceKey(row["device_status"]) = "fault"
         \/ SensorKey(row["sensor_status"]) \in {"disconnected", "out_of_range", "drifting"}
    => Diagnosis \notin {"healthy", "warming_up", "unknown"}

\* What is shown of a device is one report of its own, and neither a silent one,
\* once its stamps have aged, nor a faulty one is shown as well.
HealthIsTold ==
    /\ HealthTypeOK
    /\ TripleIsOneReport
    /\ SilentIsUnreachable
    /\ FaultIsDiagnosed
=============================================================================
