------------------------------ MODULE MCLoops ------------------------------
(***************************************************************************)
(* Six components that share no state, each with a loop or a waiter that   *)
(* has to get on, checked side by side: a behaviour is a behaviour of one  *)
(* of them, chosen at the start, and the others keep their initial state.  *)
(* The fairness of a component is assumed in its own behaviours.           *)
(***************************************************************************)
EXTENDS Database, SemanticViews, ModbusPolling, BindingReload, DeviceTwin, EdgeBuffer

VARIABLE part

B(s, c, a, n, i, d) ==
    [slave |-> s, code |-> c, address |-> a, count |-> n, interval |-> i, device |-> d]

\* Slave 1 has two poll groups whose spans overlap, with a register two bindings
\* claim; a second slave has one register pair, and slave 1 a coil.
MCCatalogue ==
    {B(1, 3, 0, 1, 1, 1), B(1, 3, 2, 2, 2, 2), B(1, 3, 3, 2, 1, 1), B(2, 3, 0, 2, 1, 3),
     B(1, 1, 0, 1, 1, 4)}

Parts == {"database", "views", "polling", "reload", "twin", "buffer"}

Only(p) ==
    /\ part = p /\ part' = p
    /\ IF p = "database" THEN TRUE ELSE UNCHANGED databaseVars
    /\ IF p = "views" THEN TRUE ELSE UNCHANGED viewVars
    /\ IF p = "polling" THEN TRUE ELSE UNCHANGED pollVars
    /\ IF p = "reload" THEN TRUE ELSE UNCHANGED reloadVars
    /\ IF p = "twin" THEN TRUE ELSE UNCHANGED twinVars
    /\ IF p = "buffer" THEN TRUE ELSE UNCHANGED bufferVars

\* A part that rests has one initial state, whichever it is.
Init ==
    /\ part \in Parts
    /\ DatabaseInit /\ ViewsInit /\ PollInit /\ ReloadInit /\ TwinInit /\ BufferInit
    /\ part # "polling" => bindings = {B(1, 3, 0, 1, 1, 1)}

Next ==
    \/ Only("database") /\ DatabaseNext
    \/ Only("views") /\ ViewsNext
    \/ Only("polling") /\ PollNext
    \/ Only("reload") /\ ReloadNext
    \/ Only("twin") /\ TwinNext
    \/ Only("buffer") /\ BufferNext

Fairness ==
    /\ \A t \in Threads : WF_databaseVars(part = "database" /\ ThreadStep(t))
    /\ WF_viewVars(part = "views" /\ QueryStep)
    /\ \A r \in Requests : WF_viewVars(part = "views" /\ ResumeRequest(r))
    /\ WF_pollVars(part = "polling" /\ PollStep)
    /\ WF_pollVars(part = "polling" /\ ServerStep)
    /\ WF_pollVars(part = "polling" /\ PollTick)
    /\ \A p \in Adapters : WF_reloadVars(part = "reload" /\ AdapterStep(p))
    /\ WF_twinVars(part = "twin" /\ Tick) /\ WF_twinVars(part = "twin" /\ LoopWakes)
    /\ \A d \in Devices : WF_twinVars(part = "twin" /\ Retire(d)) /\ WF_twinVars(part = "twin" /\ Delete(d))
    /\ \A i \in 1..MaxRegs : WF_twinVars(part = "twin" /\ i <= Len(regs) /\ (Send(i) \/ Put(i)))
    /\ WF_bufferVars(part = "buffer" /\ Loop)

vars == <<part, databaseVars, viewVars, pollVars, reloadVars, twinVars, bufferVars>>

Spec == Init /\ [][Next]_vars /\ Fairness
=============================================================================
