---------------------------- MODULE BindingReload ----------------------------
(***************************************************************************)
(* How a change of bindings.ttl and thresholds.ttl reaches the processes   *)
(* that run by them: the backend (backend/api/innovation_api.py), the      *)
(* binding service (semantic_layer/binding_service.py), and the adapters   *)
(* under their supervisor (connectivity/runner.py), brought up to date by  *)
(* deploy/openeuler/reload-bindings.sh while an operator edits the files   *)
(* and processes are started again.  Of a file it is told which edit it    *)
(* is, whether it is accepted, and which adapters find bindings in it.     *)
(***************************************************************************)
EXTENDS Integers, FiniteSets

CONSTANTS
    Adapters,       \* the active adapters
    Needy,          \* those that do not start without bindings: Modbus and OPC UA
    MaxEdits, MaxRuns, MaxStarts    \* bounds: edits, runs of the script, restarts

ASSUME ReloadAssumption ==
    /\ Needy \subseteq Adapters
    /\ MaxEdits \in Nat \ {0} /\ MaxRuns \in Nat /\ MaxStarts \in Nat

VARIABLES
    bindingsFile, thresholdsFile,
    backend,        \* binding_registry and the meta-model the resolver is bound to
    service,        \* the registry of the binding service
    adapter,        \* the supervisor of each adapter
    script,         \* how far the reload script is
    signalled,      \* the adapters it has signalled
    undisturbed,    \* no edit since the script began (history)
    edits, runs, starts

reloadVars == <<bindingsFile, thresholdsFile, backend, service, adapter, script, signalled,
                undisturbed, edits, runs, starts>>

File == [edit : 0..MaxEdits, ok : BOOLEAN, serves : SUBSET Needy]

\* a registry without an entry
Empty == [edit |-> 0, ok |-> TRUE, serves |-> {}]

Loadable(f) == IF f.ok THEN f ELSE Empty

files == <<bindingsFile, thresholdsFile, edits>>
counters == <<undisturbed, edits, runs, starts>>

---------------------------------------------------------------------------
(* The operator *)

Revised(serving) == {[edit |-> edits + 1, ok |-> TRUE, serves |-> s] : s \in serving}
                    \cup {[edit |-> edits + 1, ok |-> FALSE, serves |-> {}]}

\* one of the files, or both
Edit ==
    /\ edits < MaxEdits /\ edits' = edits + 1
    /\ bindingsFile' \in {bindingsFile} \cup Revised({{}, Needy})
    /\ thresholdsFile' \in {thresholdsFile} \cup Revised({{}})
    /\ <<bindingsFile, thresholdsFile>>' # <<bindingsFile, thresholdsFile>>
    /\ undisturbed' = FALSE
    /\ UNCHANGED <<backend, service, adapter, script, signalled, runs, starts>>

---------------------------------------------------------------------------
(* The backend *)

\* mutant: the bindings are put in place before the thresholds are looked at
HalfReloaded == [backend EXCEPT !.bindings = IF bindingsFile.ok THEN bindingsFile ELSE @,
                                !.thresholds = IF bindingsFile.ok /\ thresholdsFile.ok
                                               THEN thresholdsFile ELSE @]

\* reload_runtime_configuration: both are prepared, then both are put in place
Reloaded ==
    IF bindingsFile.ok /\ thresholdsFile.ok
    THEN [bindings |-> bindingsFile, thresholds |-> thresholdsFile] ELSE backend

\* an endpoint finds the registry without an entry and loads the bindings
LoadOnDemand ==
    /\ backend.bindings.edit = 0 /\ bindingsFile.ok /\ bindingsFile.edit # 0
    /\ backend' = [backend EXCEPT !.bindings = bindingsFile]
    /\ UNCHANGED <<bindingsFile, thresholdsFile, service, adapter, script, signalled, counters>>

\* lifespan: each is loaded for itself
BackendStarts ==
    /\ starts < MaxStarts /\ starts' = starts + 1
    /\ backend' = [bindings |-> Loadable(bindingsFile), thresholds |-> Loadable(thresholdsFile)]
    /\ UNCHANGED <<files, service, adapter, script, signalled, undisturbed, runs>>

---------------------------------------------------------------------------
(* The binding service *)

ServiceReloaded == IF bindingsFile.ok THEN bindingsFile ELSE service

ServiceStarts ==
    /\ starts < MaxStarts /\ starts' = starts + 1
    /\ service' = Loadable(bindingsFile)
    /\ UNCHANGED <<files, backend, adapter, script, signalled, undisturbed, runs>>

---------------------------------------------------------------------------
(* The adapters: supervise *)

AdapterState == [phase : {"build", "run", "stopping", "failed"}, built : File,
                 hup : BOOLEAN,
                 owed : BOOLEAN]    \* signalled, and the file not read since (history)

NewAdapter(p) == [built |-> Loadable(bindingsFile), owed |-> FALSE]

Starts(p) == p \notin Needy \/ p \in Loadable(bindingsFile).serves

\* build_adapter and start: the file is read; an adapter without bindings raises
Build(p) ==
    /\ adapter[p].phase = "build"
    /\ adapter' = [adapter EXCEPT ![p].phase = IF Starts(p) THEN "run" ELSE "failed",
                                  ![p].built = NewAdapter(p).built, ![p].owed = NewAdapter(p).owed]
    /\ UNCHANGED <<files, backend, service, script, signalled, undisturbed, runs, starts>>

\* asyncio.wait returns for the event, and stop() is called
HupWakes(p) ==
    /\ adapter[p].phase = "run" /\ adapter[p].hup
    /\ adapter' = [adapter EXCEPT ![p].phase = "stopping"]
    /\ UNCHANGED <<files, backend, service, script, signalled, undisturbed, runs, starts>>

\* start() has returned, the event is cleared, and the loop begins again
Stopped(p) ==
    /\ adapter[p].phase = "stopping"
    /\ adapter' = [adapter EXCEPT ![p].phase = "build", ![p].hup = FALSE]
    /\ UNCHANGED <<files, backend, service, script, signalled, undisturbed, runs, starts>>

\* the unit is started again after a failure (Restart=on-failure)
UnitStarts(p) ==
    /\ adapter[p].phase = "failed" /\ starts < MaxStarts /\ starts' = starts + 1
    /\ adapter' = [adapter EXCEPT ![p].phase = "build", ![p].hup = FALSE, ![p].owed = FALSE]
    /\ UNCHANGED <<files, backend, service, script, signalled, undisturbed, runs>>

---------------------------------------------------------------------------
(* reload-bindings.sh *)

Validate ==
    /\ script \in {"idle", "done"} /\ runs < MaxRuns /\ runs' = runs + 1
    /\ script' = IF bindingsFile.ok /\ thresholdsFile.ok THEN "post" ELSE "idle"
    /\ undisturbed' = TRUE /\ signalled' = {}
    /\ UNCHANGED <<files, backend, service, adapter, starts>>

\* curl --fail: a reload that is refused ends the script
Post ==
    /\ script = "post"
    /\ backend' = Reloaded
    /\ script' = IF bindingsFile.ok /\ thresholdsFile.ok THEN "service" ELSE "idle"
    /\ UNCHANGED <<files, service, adapter, signalled, undisturbed, runs, starts>>

\* systemctl reload of the binding service: its handler runs at once
SignalService ==
    /\ script = "service" /\ service' = ServiceReloaded /\ script' = "adapters"
    /\ UNCHANGED <<files, backend, adapter, signalled, undisturbed, runs, starts>>

\* and of each adapter that is active
SignalAdapter(p) ==
    /\ script = "adapters" /\ p \notin signalled
    /\ signalled' = signalled \cup {p}
    /\ adapter' = [adapter EXCEPT ![p].hup = @ \/ adapter[p].phase # "failed",
                                  ![p].owed = @ \/ adapter[p].phase # "failed"]
    /\ UNCHANGED <<files, backend, service, script, undisturbed, runs, starts>>

ScriptDone ==
    /\ script = "adapters" /\ signalled = Adapters /\ script' = "done"
    /\ UNCHANGED <<files, backend, service, adapter, signalled, undisturbed, runs, starts>>

---------------------------------------------------------------------------
ReloadInit ==
    /\ bindingsFile = [edit |-> 1, ok |-> TRUE, serves |-> Needy]
    /\ thresholdsFile = [edit |-> 1, ok |-> TRUE, serves |-> {}]
    /\ backend = [bindings |-> bindingsFile, thresholds |-> thresholdsFile]
    /\ service = bindingsFile
    /\ adapter = [p \in Adapters |-> [phase |-> "run", built |-> bindingsFile,
                                      hup |-> FALSE, owed |-> FALSE]]
    /\ script = "idle" /\ signalled = {} /\ undisturbed = TRUE
    /\ edits = 1 /\ runs = 0 /\ starts = 0

AdapterStep(p) == Build(p) \/ HupWakes(p) \/ Stopped(p)

ReloadNext ==
    \/ Edit \/ LoadOnDemand \/ BackendStarts \/ ServiceStarts
    \/ Validate \/ Post \/ SignalService \/ ScriptDone
    \/ \E p \in Adapters : AdapterStep(p) \/ UnitStarts(p) \/ SignalAdapter(p)

\* The loop of each supervisor goes on.
ReloadFairness == \A p \in Adapters : WF_reloadVars(AdapterStep(p))

ReloadSpec == ReloadInit /\ [][ReloadNext]_reloadVars /\ ReloadFairness

---------------------------------------------------------------------------
(* Properties *)

\* Nothing runs by a file that is not accepted, whenever the file was written.
ReloadTypeOK ==
    /\ \A p \in Adapters : adapter[p] \in AdapterState
    /\ \A f \in {backend.bindings, backend.thresholds, service}
                \cup {adapter[p].built : p \in Adapters} : f \in File /\ f.ok

\* The backend changes its thresholds, other than by a restart, only together
\* with its bindings, and to what both files say at that time; and it goes from
\* one set of bindings to another only together with its thresholds.
ReloadIsAllOrNothing ==
    [][backend' # backend /\ starts' = starts =>
          \/ backend' = [bindings |-> bindingsFile, thresholds |-> thresholdsFile]
          \/ backend.bindings = Empty /\ backend'.thresholds = backend.thresholds]_reloadVars

\* When the script has come to its end and nobody has edited a file meanwhile,
\* backend, service and adapters run by the same files, or are about to.
DoneMeansAgreed ==
    script = "done" /\ undisturbed =>
        /\ backend = [bindings |-> bindingsFile, thresholds |-> thresholdsFile]
        /\ service = bindingsFile
        /\ \A p \in Adapters : \/ adapter[p].phase \in {"build", "failed"} \/ adapter[p].hup
                               \/ adapter[p].built = bindingsFile

\* An adapter that was told to reload builds itself again from what the file said
\* then or later: a signal that comes while it does so already is not lost.
SignalIsHeeded ==
    \A p \in Adapters : adapter[p].owed ~> (~adapter[p].owed \/ adapter[p].phase = "failed")

\* The supervisor keeps the adapters alive: none ends while it is reloaded.
AdaptersKeptAlive == \A p \in Adapters : adapter[p].phase # "failed"

\* A reload changes a process as a whole or not at all, and reaches all of them.
ReloadReachesAll ==
    /\ [](ReloadTypeOK /\ DoneMeansAgreed)
    /\ ReloadIsAllOrNothing
    /\ SignalIsHeeded
=============================================================================
