-------------------------- MODULE ControlCommand --------------------------
(***************************************************************************)
(* One control command from POST /api/v1/control to the device and back:   *)
(* the backend's handler (backend/api/control.py), the dispatcher and the  *)
(* thread it leaves behind on a timeout (backend/services/                 *)
(* control_dispatcher.py), the command table (backend/store.py), the MQTT  *)
(* broker, the actuator agent (firmware/sim/actuator_agent.py) and its     *)
(* acknowledgement.                                                        *)
(*                                                                         *)
(* The backend runs on one event loop: a handler is atomic between awaits. *)
(* A crash can fall between two commits.  Time is the flag stale[c]: the   *)
(* command's issued_at is more than the permitted skew ago.                *)
(***************************************************************************)
EXTENDS Naturals, FiniteSets

CONSTANTS
    Commands,     \* command ids (uuid4, never reused)
    Valid,        \* commands whose action and params the device supports
    MaxCrashes,   \* bound on backend crashes
    MaxRestarts   \* bound on device restarts

ASSUME ControlAssumption ==
    /\ Valid \subseteq Commands
    /\ MaxCrashes \in Nat /\ MaxRestarts \in Nat

VARIABLES
    status,       \* control_commands.status, "absent" before the INSERT
    unreachable,  \* commands whose result is 'broker unreachable'
    audited,      \* outcomes recorded in the audit chain, per command
    handler,      \* the control() coroutine
    thread,       \* the _publish_blocking thread
    wire,         \* commands the broker still has to deliver
    reached,      \* commands the broker has accepted
    stale,        \* commands whose issued_at is out of the skew window
    nonces,       \* the agent's _nonces, by command
    acted,        \* how often the device carried the command out
    acks,         \* acknowledgements in flight
    crashes, restarts

table == <<status, unreachable, audited>>
dispatch == <<handler, thread>>
broker == <<wire, reached, stale>>
device == <<nonces, acted, restarts>>
vars == <<table, dispatch, broker, device, acks, crashes>>

Ack == [command : Commands, success : BOOLEAN]

---------------------------------------------------------------------------
(* The command table *)

\* mutant: the UPDATE without AND status = 'pending'
MarkUnguarded(c, ok) ==
    /\ status' = [status EXCEPT ![c] = IF ok THEN "dispatched" ELSE "failed"]
    /\ unreachable' = IF ok THEN unreachable ELSE unreachable \cup {c}

\* mark_command_dispatched
Mark(c, ok) ==
    IF status[c] = "pending"
    THEN /\ status' = [status EXCEPT ![c] = IF ok THEN "dispatched" ELSE "failed"]
         /\ unreachable' = IF ok THEN unreachable ELSE unreachable \cup {c}
    ELSE UNCHANGED <<status, unreachable>>

\* mutant: an acknowledgement counts as execution, whatever it reports
RecordAnyAck(a) ==
    /\ status' = IF status[a.command] \in {"executed", "failed"} THEN status
                 ELSE [status EXCEPT ![a.command] = "executed"]
    /\ UNCHANGED unreachable

\* ack_control_command: the first outcome stands
RecordAck(a) ==
    /\ status' = IF status[a.command] \in {"executed", "failed"} THEN status
                 ELSE [status EXCEPT ![a.command] =
                          IF a.success THEN "executed" ELSE "failed"]
    /\ UNCHANGED unreachable

Audit(c, outcome) == audited' = [audited EXCEPT ![c] = @ \cup {outcome}]

---------------------------------------------------------------------------
(* The control() handler *)

\* insert_control_command, then dispatch starts the publishing thread
Submit(c) ==
    /\ status[c] = "absent"
    /\ status' = [status EXCEPT ![c] = "pending"]
    /\ handler' = [handler EXCEPT ![c] = "awaiting"]
    /\ thread' = [thread EXCEPT ![c] = "publishing"]
    /\ UNCHANGED <<unreachable, audited, broker, device, acks, crashes>>

\* What wait_for may return: the thread's result, or a timeout that leaves the
\* thread running.
Outcome(c, published) ==
    IF published THEN thread[c] = "returned"
    ELSE thread[c] \in {"error", "publishing", "delivered"}

\* mutant: a timed-out command is left for somebody else to settle
ResumeOnlyWithResult(c, published) ==
    /\ handler[c] = "awaiting"
    /\ thread[c] \in {"returned", "error"}
    /\ Outcome(c, published)
    /\ Mark(c, published)
    /\ Audit(c, IF published THEN "dispatched" ELSE "dispatch_failed")
    /\ handler' = [handler EXCEPT ![c] = "answered"]
    /\ UNCHANGED <<thread, broker, device, acks, crashes>>

\* after the await: mark, audit, answer
Resume(c, published) ==
    /\ handler[c] = "awaiting"
    /\ Outcome(c, published)
    /\ Mark(c, published)
    /\ Audit(c, IF published THEN "dispatched" ELSE "dispatch_failed")
    /\ handler' = [handler EXCEPT ![c] = "answered"]
    /\ UNCHANGED <<thread, broker, device, acks, crashes>>

\* publish.single on its own thread, QoS 1: the broker accepts the message,
\* then the PUBACK comes back; or the connection fails
BrokerAccepts(c) ==
    /\ thread[c] = "publishing"
    /\ thread' = [thread EXCEPT ![c] = "delivered"]
    /\ wire' = wire \cup {c}
    /\ reached' = reached \cup {c}
    /\ UNCHANGED <<table, handler, stale, device, acks, crashes>>

PublishReturns(c) ==
    /\ thread[c] = "delivered"
    /\ thread' = [thread EXCEPT ![c] = "returned"]
    /\ UNCHANGED <<table, handler, broker, device, acks, crashes>>

PublishFails(c) ==
    /\ thread[c] = "publishing"
    /\ thread' = [thread EXCEPT ![c] = "error"]
    /\ UNCHANGED <<table, handler, broker, device, acks, crashes>>

\* POST /api/v1/control/{command_id}/ack
ControlAck(a) ==
    /\ a \in acks
    /\ acks' = acks \ {a}
    /\ RecordAck(a)
    /\ Audit(a.command, IF a.success THEN "acked" ELSE "ack_failed")
    /\ UNCHANGED <<dispatch, broker, device, crashes>>

\* The process dies with its coroutines and threads; the tables survive.
Die ==
    /\ crashes < MaxCrashes
    /\ crashes' = crashes + 1
    /\ handler' = [c \in Commands |->
                      IF handler[c] = "awaiting" THEN "lost" ELSE handler[c]]
    /\ thread' = [c \in Commands |->
                      IF thread[c] \in {"publishing", "delivered"} THEN "killed"
                      ELSE thread[c]]

Crash == Die /\ UNCHANGED <<table, broker, device, acks>>

\* between mark_command_dispatched and command_audit.record
CrashAfterMark(c, published) ==
    /\ handler[c] = "awaiting"
    /\ Outcome(c, published)
    /\ Mark(c, published)
    /\ Die
    /\ UNCHANGED <<audited, broker, device, acks>>

\* between ack_control_command and command_audit.record
CrashAfterAck(a) ==
    /\ a \in acks
    /\ acks' = acks \ {a}
    /\ RecordAck(a)
    /\ Die
    /\ UNCHANGED <<audited, broker, device>>

---------------------------------------------------------------------------
(* The broker and the device *)

\* mutant: nonces are checked but not remembered
AcceptsAgain(c) == ~stale[c]

\* _valid_signature, for a command the backend signed: fresh, and not seen
Accepts(c) == ~stale[c] /\ c \notin nonces

\* _actuate's verdict
ActuateOk(c) == c \in Valid

\* _on_message; QoS 1 may deliver the message again (again = TRUE)
AgentReceives(c, again) ==
    /\ c \in wire
    /\ wire' = IF again THEN wire ELSE wire \ {c}
    /\ IF Accepts(c)
       THEN /\ nonces' = nonces \cup {c}
            /\ acted' = [acted EXCEPT ![c] = IF c \in Valid THEN @ + 1 ELSE @]
            /\ acks' = acks \cup {[command |-> c, success |-> ActuateOk(c)]}
       ELSE UNCHANGED <<nonces, acted, acks>>
    /\ UNCHANGED <<table, dispatch, reached, stale, restarts, crashes>>

\* the device is not subscribed, or the ack's POST does not get through
MessageLost(c) ==
    /\ c \in wire
    /\ wire' = wire \ {c}
    /\ UNCHANGED <<table, dispatch, reached, stale, device, acks, crashes>>

AckLost(a) ==
    /\ a \in acks
    /\ acks' = acks \ {a}
    /\ UNCHANGED <<table, dispatch, broker, device, crashes>>

\* The skew window of the command closes.
Expire(c) ==
    /\ status[c] # "absent" /\ ~stale[c]
    /\ stale' = [stale EXCEPT ![c] = TRUE]
    /\ UNCHANGED <<table, dispatch, wire, reached, device, acks, crashes>>

\* _nonces is in memory only
DeviceRestart ==
    /\ restarts < MaxRestarts
    /\ restarts' = restarts + 1
    /\ nonces' = {}
    /\ UNCHANGED <<table, dispatch, broker, acted, acks, crashes>>

---------------------------------------------------------------------------
Init ==
    /\ status = [c \in Commands |-> "absent"]
    /\ unreachable = {}
    /\ audited = [c \in Commands |-> {}]
    /\ handler = [c \in Commands |-> "idle"]
    /\ thread = [c \in Commands |-> "none"]
    /\ wire = {}
    /\ reached = {}
    /\ stale = [c \in Commands |-> FALSE]
    /\ nonces = {}
    /\ acted = [c \in Commands |-> 0]
    /\ acks = {}
    /\ crashes = 0
    /\ restarts = 0

HandlerStep(c) == \E published \in BOOLEAN : Resume(c, published)

Next ==
    \/ \E c \in Commands :
          \/ Submit(c)
          \/ HandlerStep(c)
          \/ BrokerAccepts(c) \/ PublishReturns(c) \/ PublishFails(c)
          \/ \E published \in BOOLEAN : CrashAfterMark(c, published)
          \/ \E again \in BOOLEAN : AgentReceives(c, again)
          \/ MessageLost(c)
          \/ Expire(c)
    \/ \E a \in acks : ControlAck(a) \/ CrashAfterAck(a) \/ AckLost(a)
    \/ Crash
    \/ DeviceRestart

Spec == Init /\ [][Next]_vars

\* The event loop resumes every coroutine whose await ends, and wait_for ends
\* every await within CONTROL_TIMEOUT.
FairSpec == Spec /\ \A c \in Commands : WF_vars(HandlerStep(c))

---------------------------------------------------------------------------
(* Properties *)

TypeOK ==
    /\ status \in [Commands -> {"absent", "pending", "dispatched", "executed", "failed"}]
    /\ unreachable \subseteq Commands
    /\ audited \in [Commands -> SUBSET {"dispatched", "dispatch_failed", "acked", "ack_failed"}]
    /\ handler \in [Commands -> {"idle", "awaiting", "answered", "lost"}]
    /\ thread \in [Commands ->
          {"none", "publishing", "delivered", "returned", "error", "killed"}]
    /\ wire \subseteq reached /\ reached \subseteq Commands
    /\ stale \in [Commands -> BOOLEAN]
    /\ nonces \subseteq Commands
    /\ acted \in [Commands -> Nat]
    /\ acks \subseteq Ack
    /\ crashes \in 0..MaxCrashes /\ restarts \in 0..MaxRestarts

\* The handler, the acknowledgements and their crashes, in any order, never
\* take a status back or out of a final one (the WHERE clauses of store.py).
Lifecycle == INSTANCE CommandLifecycle
ImplementsLifecycle == Lifecycle!Spec

\* A command stands executed only if the device carried it out, though
\* acknowledgements are delayed, lost and repeated.
ExecutedWasActed == \A c \in Commands : status[c] = "executed" => acted[c] > 0

\* The nonce memory makes at-least-once delivery act at most once between
\* two restarts of the device.
ActsOncePerBoot == \A c \in Commands : acted[c] <= 1 + restarts

\* An execution the audit chain reports but the table denies was denied
\* first: the dispatch had been given up, or an earlier ack had failed.
DeniedAckHasReason ==
    \A c \in Commands :
        "acked" \in audited[c] /\ status[c] # "executed"
          => c \in unreachable

\* Commands whose status the audit chain does not tell.
Unaudited ==
    {c \in Commands :
        \/ status[c] = "dispatched" /\ "dispatched" \notin audited[c]
        \/ status[c] = "executed" /\ "acked" \notin audited[c]
        \/ status[c] = "failed" /\ audited[c] \cap {"dispatch_failed", "ack_failed"} = {}}

\* A crash between the two commits leaves one status without its entry, and
\* nothing else leaves any: not a timeout, nor an ack before the handler's mark.
UnauditedByCrash == Cardinality(Unaudited) <= crashes

\* What table and audit chain tell of a command is what happened to it, or was
\* denied before, and the chain tells of all but what a crash cut off.
OutcomesAreTrue ==
    /\ ExecutedWasActed
    /\ DeniedAckHasReason
    /\ UnauditedByCrash

\* While the backend stays up every command is settled by its handler, and a
\* handler lost in a crash is the only way to stay pending.
PendingIsSettled ==
    \A c \in Commands :
        status[c] = "pending" ~> (status[c] # "pending" \/ handler[c] = "lost")

\* The result 'broker unreachable' is what store.py writes and the dispatch
\* test expects when the broker is down.
UnreachableIsTrue == unreachable \cap reached = {}

===========================================================================
