---------------------------- MODULE DeviceTwin ----------------------------
(***************************************************************************)
(* The digital twins of the devices: every stored reading shows its device *)
(* to the AAS registry (semantic_layer/aas_live_sync.py, called by         *)
(* backend/api/ingest.py); a new device, or one that changed its protocol, *)
(* is registered in Fuseki by a background task; the watch loop that       *)
(* backend/main.py starts retires devices that have gone silent.           *)
(*                                                                         *)
(* Handlers are atomic, requests to Fuseki are not: each may arrive late,  *)
(* or never, and nobody looks at the answer but the log.  The caller gives *)
(* up after 5 s, so the watch loop may go on before its DELETE has         *)
(* arrived.  Time is in units of the loop's poll interval.                 *)
(***************************************************************************)
EXTENDS Naturals, Sequences, FiniteSets

CONSTANTS
    Devices,
    Protocols,
    Absent,       \* no entry, or no graph
    Cutoff,       \* polls of silence before a device is stale (5)
    MaxRegs,      \* bound on the registrations scheduled
    MaxRestarts   \* bound on backend restarts

ASSUME TwinAssumption ==
    /\ Absent \notin Protocols
    /\ Cutoff \in Nat /\ MaxRegs \in Nat /\ MaxRestarts \in Nat

VARIABLES
    known,     \* AASRegistry._known: a device's protocol
    age,       \* polls since a device's last_seen, up to Cutoff + 1
    regs,      \* registration tasks: [device, protocol, state]
    nextPass,       \* the poll interval has passed since the loop went to sleep
    leaving,      \* stale devices the loop has yet to deal with
    deletes,   \* devices whose DELETE is on its way
    graph,     \* Fuseki: the protocol in a device's named graph
    \* history
    lastPut,   \* the registration that wrote the graph last
    earlier,   \* devices that were known before a restart
    silent,    \* devices that are stale, or that are being retired because they were
    restarts

registry == <<known, age>>
loop == <<nextPass, leaving>>
fuseki == <<deletes, graph, lastPut>>
past == <<earlier, silent, restarts>>
twinVars == <<registry, regs, loop, fuseki, past>>

Ages == 0..(Cutoff + 1)
Registration ==
    [device : Devices, protocol : Protocols,
     state : {"scheduled", "sent", "stored", "gone"}]

---------------------------------------------------------------------------
(* The ingest handler *)

\* observe returns True
Noticed(d, p) == known[d] = Absent \/ known[d] # p

Seen(d, p) ==
    /\ known' = [known EXCEPT ![d] = p]
    /\ age' = [age EXCEPT ![d] = 0]
    /\ silent' = IF d \in leaving \cup deletes THEN silent ELSE silent \ {d}
    /\ UNCHANGED <<loop, fuseki, earlier, restarts>>

\* A reading of the device is stored.  The handler may still fail after
\* observe, which loses the task.
Report(d, p) ==
    /\ Seen(d, p)
    /\ IF Noticed(d, p)
       THEN /\ Len(regs) < MaxRegs
            /\ \E s \in {"scheduled", "gone"} :
                  regs' = Append(regs, [device |-> d, protocol |-> p, state |-> s])
       ELSE UNCHANGED regs

---------------------------------------------------------------------------
(* register_device_in_fuseki *)

SetState(i, s) == regs' = [regs EXCEPT ![i] = [regs[i] EXCEPT !.state = s]]

Send(i) ==
    /\ regs[i].state = "scheduled"
    /\ SetState(i, "sent")
    /\ UNCHANGED <<registry, loop, fuseki, past>>

\* the PUT replaces the graph of the device
PutArrives(i) ==
    /\ regs[i].state = "sent"
    /\ SetState(i, "stored")
    /\ graph' = [graph EXCEPT ![regs[i].device] = regs[i].protocol]
    /\ lastPut' = [lastPut EXCEPT ![regs[i].device] = i]
    /\ UNCHANGED <<registry, loop, deletes, past>>

\* refused, or lost on the way: only logged
PutFails(i) ==
    /\ regs[i].state = "sent"
    /\ SetState(i, "gone")
    /\ UNCHANGED <<registry, loop, fuseki, past>>

---------------------------------------------------------------------------
(* watch_loop *)

\* mutant: the cutoff is ignored
AnyAge(d) == known[d] # Absent

Stale(d) == known[d] # Absent /\ age[d] > Cutoff

\* The loop wakes up.  It judges the entries it has listed here, whatever
\* devices report while it awaits its requests.
LoopWakes ==
    /\ nextPass /\ leaving = {}
    /\ nextPass' = FALSE
    /\ leaving' = {d \in Devices : Stale(d)}
    /\ UNCHANGED <<registry, regs, fuseki, past>>

\* retire_device_in_fuseki; the last DELETE of the device has come to its
\* end by the time it is stale once more
Retire(d) ==
    /\ d \in leaving /\ d \notin deletes
    /\ leaving' = leaving \ {d}
    /\ deletes' = deletes \cup {d}
    /\ UNCHANGED <<registry, regs, nextPass, graph, lastPut, past>>

DeleteEnds(d) ==
    /\ d \in deletes
    /\ deletes' = deletes \ {d}
    /\ silent' = IF age[d] > Cutoff \/ d \in leaving THEN silent ELSE silent \ {d}
    /\ UNCHANGED <<registry, regs, loop, lastPut, earlier, restarts>>

DeleteArrives(d) == DeleteEnds(d) /\ graph' = [graph EXCEPT ![d] = Absent]

DeleteFails(d) == DeleteEnds(d) /\ UNCHANGED graph

---------------------------------------------------------------------------
\* one poll interval passes
Tick ==
    /\ age' = [d \in Devices |->
                  IF known[d] # Absent /\ age[d] <= Cutoff THEN age[d] + 1 ELSE age[d]]
    /\ nextPass' = (leaving = {})    \* it sleeps only when it is through with its list
    /\ silent' = silent \cup {d \in Devices : age'[d] > Cutoff}
    /\ UNCHANGED <<known, regs, leaving, fuseki, earlier, restarts>>

\* The registry and the background tasks are gone, requests under way and
\* the graphs are not.
Restart ==
    /\ restarts < MaxRestarts /\ restarts' = restarts + 1
    /\ earlier' = earlier \cup {d \in Devices : known[d] # Absent}
    /\ known' = [d \in Devices |-> Absent] /\ age' = [d \in Devices |-> 0]
    /\ regs' = [i \in 1..Len(regs) |->
                   IF regs[i].state = "scheduled" THEN [regs[i] EXCEPT !.state = "gone"]
                   ELSE regs[i]]
    /\ nextPass' = FALSE /\ leaving' = {}
    /\ silent' = silent \cap deletes
    /\ UNCHANGED fuseki

---------------------------------------------------------------------------
TwinInit ==
    /\ known = [d \in Devices |-> Absent] /\ age = [d \in Devices |-> 0]
    /\ regs = <<>>
    /\ nextPass = FALSE /\ leaving = {} /\ deletes = {}
    /\ graph = [d \in Devices |-> Absent] /\ lastPut = [d \in Devices |-> 0]
    /\ earlier = {} /\ silent = {} /\ restarts = 0

Put(i) == PutArrives(i) \/ PutFails(i)

Delete(d) == DeleteArrives(d) \/ DeleteFails(d)

\* a request that would have changed the graph of the device
RequestFails(d) ==
    \/ \E i \in 1..Len(regs) : regs[i].device = d /\ PutFails(i)
    \/ graph[d] # Absent /\ DeleteFails(d)

TwinNext ==
    \/ \E d \in Devices :
          \/ \E p \in Protocols : Report(d, p)
          \/ Retire(d)
          \/ Delete(d)
    \/ \E i \in 1..Len(regs) : Send(i) \/ Put(i)
    \/ LoopWakes
    \/ Tick
    \/ Restart

TwinSpec == TwinInit /\ [][TwinNext]_twinVars

\* Time passes, the event loop runs the watch loop and the tasks that are
\* ready, and every request comes to its end.
TwinFairSpec ==
    /\ TwinSpec
    /\ WF_twinVars(Tick) /\ WF_twinVars(LoopWakes)
    /\ \A d \in Devices : WF_twinVars(Retire(d)) /\ WF_twinVars(Delete(d))
    /\ \A i \in 1..MaxRegs : WF_twinVars(i <= Len(regs) /\ (Send(i) \/ Put(i)))

---------------------------------------------------------------------------
(* Properties *)

\* The shape of the registry, the requests and the graph store.
TwinTypeOK ==
    /\ known \in [Devices -> Protocols \cup {Absent}] /\ age \in [Devices -> Ages]
    /\ regs \in Seq(Registration) /\ Len(regs) <= MaxRegs
    /\ nextPass \in BOOLEAN /\ leaving \subseteq Devices /\ deletes \subseteq Devices
    /\ graph \in [Devices -> Protocols \cup {Absent}]
    /\ lastPut \in [Devices -> 0..Len(regs)]
    /\ earlier \subseteq Devices /\ silent \subseteq Devices
    /\ restarts \in 0..MaxRestarts

\* A graph that no registry entry stands for, and that no poll will ever
\* retire, can only be left over from before a restart.
OrphansAreOld ==
    \A d \in Devices : graph[d] # Absent => known[d] # Absent \/ d \in earlier

\* A graph is removed only because its device was silent for more than Cutoff
\* polls when the loop listed it: it may have reported since, before the DELETE
\* arrives, but a device that reported after its last retirement is safe.
RemovedWasSilent ==
    [][\A d \in Devices : graph[d] # Absent /\ graph'[d] = Absent => d \in silent]_twinVars

Newest(d) == {i \in 1..Len(regs) : regs[i].device = d
                  /\ \A j \in 1..Len(regs) : regs[j].device = d => j <= i}

\* A graph shows another protocol than the registry only while, or because,
\* the newest registration of the device was not the last to arrive.
ProtocolFollows ==
    \A d \in Devices :
        known[d] # Absent /\ graph[d] # Absent /\ lastPut[d] \in Newest(d)
          => graph[d] = known[d]

ReportsFrom(d) == \E p \in Protocols : Report(d, p)

\* The graph of a known device that stays silent is gone for good once
\* its requests get through: a late PUT may bring it back, but the loop retires
\* a retired device again and again.
SilentIsRetired ==
    \A d \in Devices :
        (/\ <>[][~ReportsFrom(d)]_twinVars /\ <>[][~RequestFails(d)]_twinVars
         /\ <>[](known[d] # Absent))
          => <>[](graph[d] = Absent)

\* The graphs follow the registry, through requests that fail or overtake each
\* other, and go with the devices that are silent.
TwinsFollow ==
    /\ [](TwinTypeOK /\ OrphansAreOld /\ ProtocolFollows)
    /\ RemovedWasSilent
    /\ SilentIsRetired
===========================================================================
