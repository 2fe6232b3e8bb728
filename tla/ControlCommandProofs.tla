----------------------- MODULE ControlCommandProofs -----------------------
(***************************************************************************)
(* Theorems about ControlCommand, for any number of commands, crashes and  *)
(* restarts.                                                               *)
(***************************************************************************)
EXTENDS ControlCommand, FiniteSetTheorems, TLAPS

\* The inductive invariant.  An acknowledgement in flight or an "acked" entry
\* stems from an execution of a supported command, a command acted on since
\* the last restart is in the nonces, and a supported command fails only by
\* being given up as unreachable.
AcksInv ==
    \A a \in acks :
        /\ a.success => a.command \in Valid /\ acted[a.command] > 0
        /\ ~a.success => a.command \notin Valid
        /\ status[a.command] # "absent"

CommandInv(c) ==
    /\ acted[c] <= restarts + (IF c \in nonces THEN 1 ELSE 0)
    /\ status[c] = "executed" => acted[c] > 0
    /\ status[c] = "failed" /\ c \in Valid => c \in unreachable
    /\ "acked" \in audited[c] =>
          c \in Valid /\ status[c] \in {"executed", "failed"}
    /\ c \in reached \/ thread[c] # "none" \/ handler[c] = "awaiting"
          => status[c] # "absent"

Inv == TypeOK /\ AcksInv /\ \A c \in Commands : CommandInv(c)

USE DEF table, dispatch, broker, device

\* What a write to the table may change.
TableStep(d) ==
    /\ status[d] \in {"executed", "failed"} => status'[d] = status[d]
    /\ status[d] # "absent" => status'[d] # "absent"
    /\ d \in unreachable => d \in unreachable'

LEMMA MarkKeeps ==
    ASSUME Inv, NEW c \in Commands, NEW ok \in BOOLEAN,
           Mark(c, ok), handler[c] = "awaiting"
    PROVE  /\ status' \in [Commands -> {"absent", "pending", "dispatched", "executed", "failed"}]
           /\ unreachable' \subseteq Commands
           /\ \A d \in Commands :
                 /\ TableStep(d)
                 /\ status'[d] = "executed" => status[d] = "executed"
                 /\ status'[d] = "failed" => status[d] = "failed" \/ d \in unreachable'
BY DEF Inv, TypeOK, CommandInv, Mark, TableStep

LEMMA RecordAckKeeps ==
    ASSUME Inv, NEW a \in acks, RecordAck(a)
    PROVE  /\ a.command \in Commands /\ a.success \in BOOLEAN
           /\ status' \in [Commands -> {"absent", "pending", "dispatched", "executed", "failed"}]
           /\ unreachable' = unreachable
           /\ status'[a.command] \in {"executed", "failed"}
           /\ \A d \in Commands :
                 /\ TableStep(d)
                 /\ status'[d] = "executed" => status[d] = "executed" \/ (d = a.command /\ a.success)
                 /\ status'[d] = "failed" => status[d] = "failed" \/ (d = a.command /\ ~a.success)
<1> a.command \in Commands /\ a.success \in BOOLEAN
  BY DEF Inv, TypeOK, Ack
<1> QED BY DEF Inv, TypeOK, RecordAck, TableStep

\* The table steps, with or without the audit entry and the crash.
LEMMA MarkStep ==
    ASSUME Inv, NEW c \in Commands, NEW ok \in BOOLEAN, handler[c] = "awaiting", Mark(c, ok),
           \/ UNCHANGED audited
           \/ Audit(c, IF ok THEN "dispatched" ELSE "dispatch_failed"),
           \/ handler' = [handler EXCEPT ![c] = "answered"] /\ UNCHANGED <<thread, crashes>>
           \/ Die,
           UNCHANGED <<broker, device, acks>>
    PROVE  Inv'
<1>1. TypeOK'
  BY MarkKeeps, ControlAssumption DEF Inv, TypeOK, Audit, Die
<1>2. AcksInv'
  BY MarkKeeps DEF Inv, TypeOK, AcksInv, TableStep, Ack
<1>3. ASSUME NEW d \in Commands PROVE CommandInv(d)'
  <2>1. "acked" \in audited'[d] => "acked" \in audited[d]
    BY DEF Inv, TypeOK, Audit
  <2>2. thread'[d] # "none" => thread[d] # "none"
    BY DEF Inv, TypeOK, Die
  <2>3. handler'[d] = "awaiting" => handler[d] = "awaiting"
    BY DEF Inv, TypeOK, Die
  <2>4. CommandInv(d)
    BY DEF Inv
  <2> QED BY <2>1, <2>2, <2>3, <2>4, MarkKeeps DEF CommandInv, TableStep
<1> QED BY <1>1, <1>2, <1>3 DEF Inv

LEMMA AckStep ==
    ASSUME Inv, NEW a \in acks, RecordAck(a), acks' = acks \ {a},
           \/ UNCHANGED audited
           \/ Audit(a.command, IF a.success THEN "acked" ELSE "ack_failed"),
           UNCHANGED <<dispatch, crashes>> \/ Die,
           UNCHANGED <<broker, device>>
    PROVE  Inv'
<1>1. TypeOK'
  BY RecordAckKeeps, ControlAssumption DEF Inv, TypeOK, Audit, Die
<1>2. AcksInv'
  BY RecordAckKeeps DEF Inv, TypeOK, AcksInv, TableStep, Ack
<1>3. ASSUME NEW d \in Commands PROVE CommandInv(d)'
  <2>1. "acked" \in audited'[d] => "acked" \in audited[d] \/ (d = a.command /\ a.success)
    BY DEF Inv, TypeOK, Audit
  <2>2. thread'[d] # "none" => thread[d] # "none"
    BY DEF Inv, TypeOK, Die
  <2>3. handler'[d] = "awaiting" => handler[d] = "awaiting"
    BY DEF Inv, TypeOK, Die
  <2>4. CommandInv(d)
    BY DEF Inv
  <2>5. /\ a.success => a.command \in Valid /\ acted[a.command] > 0
        /\ ~a.success => a.command \notin Valid
    BY DEF Inv, AcksInv
  <2> QED BY <2>1, <2>2, <2>3, <2>4, <2>5, RecordAckKeeps DEF CommandInv, TableStep
<1> QED BY <1>1, <1>2, <1>3 DEF Inv

\* The device accepts a command: it acts on it if it can, and remembers it.
LEMMA AcceptStep ==
    ASSUME Inv, NEW c \in Commands, NEW again \in BOOLEAN, AgentReceives(c, again)
    PROVE  Inv'
<1>1. c \in reached /\ status[c] # "absent"
  BY DEF AgentReceives, Inv, TypeOK, CommandInv
<1>2. CASE Accepts(c)
  <2>1. /\ nonces' = nonces \cup {c}
        /\ acted' = [acted EXCEPT ![c] = IF c \in Valid THEN @ + 1 ELSE @]
        /\ acks' = acks \cup {[command |-> c, success |-> c \in Valid]}
        /\ wire' \subseteq wire
        /\ c \notin nonces
        /\ UNCHANGED <<table, dispatch, reached, stale, restarts, crashes>>
    BY <1>2 DEF AgentReceives, Accepts, ActuateOk
  <2>2. TypeOK'
    <3>0. [command |-> c, success |-> c \in Valid] \in Ack
      <4>1. CASE c \in Valid
        <5>1. (c \in Valid) = TRUE
          BY <4>1
        <5> QED BY <5>1 DEF Ack
      <4>2. CASE c \notin Valid
        <5>1. (c \in Valid) = FALSE
          BY <4>2
        <5> QED BY <5>1 DEF Ack
      <4> QED BY <4>1, <4>2
    <3>1. acks' \subseteq Ack
      BY <2>1, <3>0 DEF Inv, TypeOK
    <3>2. acted' \in [Commands -> Nat] /\ nonces' \subseteq Commands
      BY <2>1 DEF Inv, TypeOK
    <3> QED BY <2>1, <3>1, <3>2 DEF Inv, TypeOK
  <2>3. \A d \in Commands :
            acted'[d] = IF d = c /\ d \in Valid THEN acted[d] + 1 ELSE acted[d]
    BY <2>1 DEF Inv, TypeOK
  <2>4. AcksInv'
    <3> SUFFICES ASSUME NEW a \in acks'
                 PROVE  /\ a.success => a.command \in Valid /\ acted'[a.command] > 0
                        /\ ~a.success => a.command \notin Valid
                        /\ status'[a.command] # "absent"
      BY DEF AcksInv
    <3>1. \A d \in Commands : acted[d] \in Nat
      BY DEF Inv, TypeOK
    <3>2. CASE a \in acks
      <4>1. a.command \in Commands
        BY <3>2 DEF Inv, TypeOK, Ack
      <4> QED BY <2>1, <2>3, <3>1, <3>2, <4>1 DEF Inv, AcksInv
    <3>3. CASE a = [command |-> c, success |-> c \in Valid]
      <4>1. a.command = c
        BY <3>3
      <4>2. a.success <=> c \in Valid
        BY <3>3, Zenon
      <4>3. status'[c] # "absent" /\ (c \in Valid => acted'[c] > 0)
        BY <1>1, <2>1, <2>3, <3>1
      <4> QED BY <4>1, <4>2, <4>3
    <3> QED BY <2>1, <3>2, <3>3
  <2>5. ASSUME NEW d \in Commands PROVE CommandInv(d)'
    BY <2>1, <2>3 DEF Inv, TypeOK, CommandInv
  <2> QED BY <2>2, <2>4, <2>5 DEF Inv
<1>3. CASE ~Accepts(c)
  BY <1>3 DEF AgentReceives, Inv, TypeOK, AcksInv, CommandInv
<1> QED BY <1>2, <1>3

\* The invariant holds in every reachable state.
LEMMA Invariant == Spec => []Inv
<1>1. Init => Inv
  BY ControlAssumption DEF Init, Inv, TypeOK, AcksInv, CommandInv
<1>2. Inv /\ [Next]_vars => Inv'
  <2> SUFFICES ASSUME Inv, [Next]_vars
               PROVE  Inv'
    OBVIOUS
  <2>1. ASSUME NEW c \in Commands, Submit(c)
        PROVE  Inv'
    <3>1. TypeOK' /\ AcksInv'
      BY <2>1 DEF Submit, Inv, TypeOK, AcksInv, Ack
    <3>2. ASSUME NEW d \in Commands PROVE CommandInv(d)'
      BY <2>1 DEF Submit, Inv, TypeOK, CommandInv
    <3> QED BY <3>1, <3>2 DEF Inv
  <2>2. ASSUME NEW c \in Commands, NEW ok \in BOOLEAN,
               Resume(c, ok) \/ CrashAfterMark(c, ok)
        PROVE  Inv'
    BY <2>2, MarkStep DEF Resume, CrashAfterMark
  <2>3. ASSUME NEW c \in Commands, BrokerAccepts(c) \/ PublishReturns(c) \/ PublishFails(c)
        PROVE  Inv'
    <3>1. TypeOK' /\ AcksInv'
      BY <2>3 DEF BrokerAccepts, PublishReturns, PublishFails, Inv, TypeOK, AcksInv
    <3>2. ASSUME NEW d \in Commands PROVE CommandInv(d)'
      BY <2>3 DEF BrokerAccepts, PublishReturns, PublishFails, Inv, TypeOK, CommandInv
    <3> QED BY <3>1, <3>2 DEF Inv
  <2>4. ASSUME NEW c \in Commands, NEW again \in BOOLEAN, AgentReceives(c, again)
        PROVE  Inv'
    BY <2>4, AcceptStep
  <2>5. ASSUME NEW c \in Commands, MessageLost(c) \/ Expire(c)
        PROVE  Inv'
    BY <2>5, ZenonT(30) DEF MessageLost, Expire, Inv, TypeOK, AcksInv, CommandInv
  <2>6. ASSUME NEW a \in acks, ControlAck(a) \/ CrashAfterAck(a)
        PROVE  Inv'
    BY <2>6, AckStep DEF ControlAck, CrashAfterAck
  <2>7. ASSUME NEW a \in acks, AckLost(a)
        PROVE  Inv'
    BY <2>7 DEF AckLost, Inv, TypeOK, AcksInv, CommandInv
  <2>8. CASE Crash
    <3>1. TypeOK' /\ AcksInv'
      BY <2>8, ControlAssumption DEF Crash, Die, Inv, TypeOK, AcksInv
    <3>2. ASSUME NEW d \in Commands PROVE CommandInv(d)'
      BY <2>8 DEF Crash, Die, Inv, TypeOK, CommandInv
    <3> QED BY <3>1, <3>2 DEF Inv
  <2>9. CASE DeviceRestart
    <3>1. TypeOK' /\ AcksInv'
      BY <2>9, ControlAssumption DEF DeviceRestart, Inv, TypeOK, AcksInv
    <3>2. ASSUME NEW d \in Commands PROVE CommandInv(d)'
      BY <2>9, ControlAssumption DEF DeviceRestart, Inv, TypeOK, CommandInv
    <3> QED BY <3>1, <3>2 DEF Inv
  <2>10. CASE UNCHANGED vars
    BY <2>10 DEF vars, Inv, TypeOK, AcksInv, CommandInv
  <2> QED BY <2>1, <2>2, <2>3, <2>4, <2>5, <2>6, <2>7, <2>8, <2>9, <2>10
          DEF Next, HandlerStep
<1> QED BY <1>1, <1>2, PTL DEF Spec

\* Every reachable state of the command path is well typed.
THEOREM TypeCorrect == Spec => []TypeOK
<1>1. Inv => TypeOK
  BY DEF Inv
<1> QED BY <1>1, Invariant, PTL

\* A command the table calls executed was carried out by the device.
THEOREM ExecutedWasActedHolds == Spec => []ExecutedWasActed
<1>1. Inv => ExecutedWasActed
  BY DEF Inv, CommandInv, ExecutedWasActed
<1> QED BY <1>1, Invariant, PTL

\* However often the broker redelivers, the device acts at most once per boot.
THEOREM ActsOncePerBootHolds == Spec => []ActsOncePerBoot
<1>1. Inv => ActsOncePerBoot
  BY DEF Inv, TypeOK, CommandInv, ActsOncePerBoot
<1> QED BY <1>1, Invariant, PTL

\* An execution that the audit chain reports and the table denies belongs to a
\* command whose dispatch had been given up.
THEOREM DeniedAckHasReasonHolds == Spec => []DeniedAckHasReason
<1>1. Inv => DeniedAckHasReason
  BY DEF Inv, CommandInv, DeniedAckHasReason
<1> QED BY <1>1, Invariant, PTL

\* The command path implements the lifecycle of the command table.
THEOREM LifecycleImplemented == Spec => ImplementsLifecycle
<1>1. Init => Lifecycle!Init
  BY DEF Init, Lifecycle!Init
<1>2. Inv /\ [Next]_vars => [Lifecycle!Next]_status
  <2> SUFFICES ASSUME Inv, [Next]_vars, status' # status
               PROVE  Lifecycle!Next
    OBVIOUS
  <2> USE DEF Lifecycle!Successors, Lifecycle!Terminal
  <2>0. ASSUME NEW c \in Commands,
               NEW s \in {"pending", "dispatched", "executed", "failed"},
               s \in Lifecycle!Successors[status[c]],
               status' = [status EXCEPT ![c] = s]
        PROVE  Lifecycle!Next
    <3>1. s \in {"pending", "dispatched"} \cup Lifecycle!Terminal
      BY <2>0
    <3> QED BY <2>0, <3>1 DEF Lifecycle!Next, Lifecycle!Move
  <2>1. ASSUME NEW c \in Commands, Submit(c)
        PROVE  Lifecycle!Next
    <3>1. status[c] = "absent"
      BY <2>1 DEF Submit
    <3>2. "pending" \in Lifecycle!Successors[status[c]]
      BY <3>1
    <3> QED BY <2>0, <2>1, <3>2 DEF Submit
  <2>2. ASSUME NEW c \in Commands, NEW ok \in BOOLEAN, Mark(c, ok)
        PROVE  Lifecycle!Next
    <3>1. status[c] = "pending"
      BY <2>2 DEF Mark
    <3>2. {"dispatched", "failed"} \subseteq Lifecycle!Successors[status[c]]
      BY <3>1
    <3>3. \E s \in {"dispatched", "failed"} : status' = [status EXCEPT ![c] = s]
      BY <2>2, <3>1 DEF Mark
    <3> QED BY <2>0, <3>2, <3>3
  <2>3. ASSUME NEW a \in acks, RecordAck(a)
        PROVE  Lifecycle!Next
    <3>1. a.command \in Commands /\ status[a.command] # "absent"
      BY <2>3, RecordAckKeeps DEF Inv, AcksInv
    <3>2. status[a.command] \in {"pending", "dispatched"}
      BY <2>3, <3>1 DEF RecordAck, Inv, TypeOK
    <3>3. \E s \in {"executed", "failed"} : status' = [status EXCEPT ![a.command] = s]
      BY <2>3, <3>2 DEF RecordAck
    <3>4. {"executed", "failed"} \subseteq Lifecycle!Successors[status[a.command]]
      BY <3>2
    <3> QED BY <2>0, <3>1, <3>3, <3>4
  <2>4. UNCHANGED vars => FALSE
    BY DEF vars
  <2> QED BY <2>1, <2>2, <2>3, <2>4
          DEF Next, HandlerStep, Resume, BrokerAccepts, PublishReturns, PublishFails,
              CrashAfterMark, AgentReceives, MessageLost, Expire, ControlAck,
              CrashAfterAck, AckLost, Crash, DeviceRestart
<1> QED BY <1>1, <1>2, Invariant, PTL DEF Spec, ImplementsLifecycle, Lifecycle!Spec

\* A step of table or chain leaves at most one status untold, if the process dies in it.
LEMMA UnauditedStep ==
    ASSUME Inv, [Next]_vars, crashes \in Nat
    PROVE  \/ Unaudited' \subseteq Unaudited /\ crashes' \in Nat /\ crashes' >= crashes
           \/ \E c \in Commands : Unaudited' \subseteq Unaudited \cup {c} /\ crashes' = crashes + 1
<1>1. audited \in [Commands -> SUBSET {"dispatched", "dispatch_failed", "acked", "ack_failed"}]
      /\ status \in [Commands -> {"absent", "pending", "dispatched", "executed", "failed"}]
  BY DEF Inv, TypeOK
<1>2. ASSUME NEW c \in Commands, NEW ok \in BOOLEAN, Mark(c, ok)
      PROVE  \A d \in Commands : status'[d] = status[d] \/ (d = c /\ status'[d] = IF ok THEN "dispatched" ELSE "failed")
  BY <1>1, <1>2 DEF Mark
<1>3. ASSUME NEW a \in acks, RecordAck(a)
      PROVE  /\ a.command \in Commands
             /\ \A d \in Commands : status'[d] = status[d]
                   \/ (d = a.command /\ status'[d] = IF a.success THEN "executed" ELSE "failed")
  <2>1. a.command \in Commands
    BY DEF Inv, TypeOK, Ack
  <2> QED BY <1>1, <1>3, <2>1 DEF RecordAck
<1>4. ASSUME NEW c \in Commands, NEW x, Audit(c, x)
      PROVE  \A d \in Commands : audited'[d] = IF d = c THEN audited[d] \cup {x} ELSE audited[d]
  BY <1>1, <1>4 DEF Audit
<1>5. ASSUME NEW c \in Commands, HandlerStep(c) PROVE Unaudited' \subseteq Unaudited /\ crashes' = crashes
  <2>1. PICK ok \in BOOLEAN : Resume(c, ok)
    BY <1>5 DEF HandlerStep
  <2>2. Mark(c, ok) /\ Audit(c, IF ok THEN "dispatched" ELSE "dispatch_failed") /\ crashes' = crashes
    BY <2>1 DEF Resume
  <2>3. CASE ok
    <3>1. \A d \in Commands : status'[d] = status[d] \/ (d = c /\ status'[d] = "dispatched")
      BY <1>2, <2>2, <2>3
    <3>2. \A d \in Commands : audited'[d] = IF d = c THEN audited[d] \cup {"dispatched"} ELSE audited[d]
      BY <1>4, <2>2, <2>3
    <3> QED BY <2>2, <3>1, <3>2 DEF Unaudited
  <2>4. CASE ~ok
    <3>1. \A d \in Commands : status'[d] = status[d] \/ (d = c /\ status'[d] = "failed")
      BY <1>2, <2>2, <2>4
    <3>2. \A d \in Commands : audited'[d] = IF d = c THEN audited[d] \cup {"dispatch_failed"} ELSE audited[d]
      BY <1>4, <2>2, <2>4
    <3> QED BY <2>2, <3>1, <3>2 DEF Unaudited
  <2> QED BY <2>3, <2>4
<1>6. ASSUME NEW a \in acks, ControlAck(a) PROVE Unaudited' \subseteq Unaudited /\ crashes' = crashes
  <2>1. RecordAck(a) /\ Audit(a.command, IF a.success THEN "acked" ELSE "ack_failed") /\ crashes' = crashes
    BY <1>6 DEF ControlAck
  <2>2. a.command \in Commands
    BY <1>3, <2>1
  <2>3. CASE a.success
    <3>1. \A d \in Commands : status'[d] = status[d] \/ (d = a.command /\ status'[d] = "executed")
      BY <1>3, <2>1, <2>3
    <3>2. \A d \in Commands : audited'[d] = IF d = a.command THEN audited[d] \cup {"acked"} ELSE audited[d]
      BY <1>4, <2>1, <2>2, <2>3
    <3> QED BY <2>1, <3>1, <3>2 DEF Unaudited
  <2>4. CASE ~a.success
    <3>1. \A d \in Commands : status'[d] = status[d] \/ (d = a.command /\ status'[d] = "failed")
      BY <1>3, <2>1, <2>4
    <3>2. \A d \in Commands : audited'[d] = IF d = a.command THEN audited[d] \cup {"ack_failed"} ELSE audited[d]
      BY <1>4, <2>1, <2>2, <2>4
    <3> QED BY <2>1, <3>1, <3>2 DEF Unaudited
  <2> QED BY <2>3, <2>4
<1>7. ASSUME NEW c \in Commands, NEW ok \in BOOLEAN, CrashAfterMark(c, ok)
      PROVE  Unaudited' \subseteq Unaudited \cup {c} /\ crashes' = crashes + 1
  <2>1. Mark(c, ok) /\ audited' = audited /\ crashes' = crashes + 1
    BY <1>7 DEF CrashAfterMark, Die
  <2>2. \A d \in Commands : d # c => status'[d] = status[d]
    BY <1>2, <2>1
  <2> QED BY <2>1, <2>2 DEF Unaudited
<1>8. ASSUME NEW a \in acks, CrashAfterAck(a)
      PROVE  a.command \in Commands /\ Unaudited' \subseteq Unaudited \cup {a.command} /\ crashes' = crashes + 1
  <2>1. RecordAck(a) /\ audited' = audited /\ crashes' = crashes + 1
    BY <1>8 DEF CrashAfterAck, Die
  <2>2. a.command \in Commands /\ \A d \in Commands : d # a.command => status'[d] = status[d]
    BY <1>3, <2>1
  <2> QED BY <2>1, <2>2 DEF Unaudited
<1>9. ASSUME NEW c \in Commands, Submit(c) PROVE Unaudited' \subseteq Unaudited /\ crashes' = crashes
  <2>1. status' = [status EXCEPT ![c] = "pending"] /\ audited' = audited /\ crashes' = crashes
    BY <1>9 DEF Submit
  <2>2. \A d \in Commands : status'[d] = status[d] \/ status'[d] = "pending"
    BY <1>1, <2>1
  <2> QED BY <2>1, <2>2 DEF Unaudited
<1>10. ASSUME UNCHANGED table, crashes' = crashes \/ crashes' = crashes + 1
       PROVE  Unaudited' \subseteq Unaudited /\ crashes' \in Nat /\ crashes' >= crashes
  BY <1>10 DEF Unaudited
<1>11. CASE Crash
  BY <1>10, <1>11 DEF Crash, Die
<1>12. CASE DeviceRestart \/ UNCHANGED vars
  BY <1>10, <1>12 DEF DeviceRestart, vars
<1>13. ASSUME NEW c \in Commands,
              \/ BrokerAccepts(c) \/ PublishReturns(c) \/ PublishFails(c) \/ MessageLost(c) \/ Expire(c)
              \/ \E again \in BOOLEAN : AgentReceives(c, again)
       PROVE  UNCHANGED table /\ crashes' = crashes
  BY <1>13 DEF BrokerAccepts, PublishReturns, PublishFails, MessageLost, Expire, AgentReceives
<1>14. ASSUME NEW a \in acks, AckLost(a) PROVE UNCHANGED table /\ crashes' = crashes
  BY <1>14 DEF AckLost
<1> QED BY <1>5, <1>6, <1>7, <1>8, <1>9, <1>10, <1>11, <1>12, <1>13, <1>14 DEF Next

\* The audit chain tells the status of every command but one for each crash.
THEOREM UnauditedByCrashHolds == Spec => []UnauditedByCrash
<1> DEFINE Few == IsFiniteSet(Unaudited) /\ Cardinality(Unaudited) <= crashes
<1>1. Init => Few
  <2> SUFFICES ASSUME Init PROVE Few
    OBVIOUS
  <2>1. Unaudited = {} /\ crashes = 0
    BY DEF Init, Unaudited
  <2> QED BY <2>1, FS_EmptySet
<1>2. Inv /\ Few /\ [Next]_vars => Few'
  <2> SUFFICES ASSUME Inv, Few, [Next]_vars PROVE Few'
    OBVIOUS
  <2>1. crashes \in Nat /\ Cardinality(Unaudited) \in Nat
    BY FS_CardinalityType DEF Inv, TypeOK
  <2>2. CASE Unaudited' \subseteq Unaudited /\ crashes' \in Nat /\ crashes' >= crashes
    <3>1. IsFiniteSet(Unaudited') /\ Cardinality(Unaudited') <= Cardinality(Unaudited)
      BY <2>2, FS_Subset
    <3>2. Cardinality(Unaudited') \in Nat
      BY <3>1, FS_CardinalityType
    <3> QED BY <2>1, <2>2, <3>1, <3>2
  <2>3. ASSUME NEW c \in Commands, Unaudited' \subseteq Unaudited \cup {c}, crashes' = crashes + 1
        PROVE  Few'
    <3>1. IsFiniteSet(Unaudited \cup {c}) /\ Cardinality(Unaudited \cup {c}) \in {Cardinality(Unaudited), Cardinality(Unaudited) + 1}
      BY FS_AddElement
    <3>2. IsFiniteSet(Unaudited') /\ Cardinality(Unaudited') <= Cardinality(Unaudited \cup {c})
      BY <2>3, <3>1, FS_Subset
    <3>3. Cardinality(Unaudited') \in Nat
      BY <3>2, FS_CardinalityType
    <3> QED BY <2>1, <2>3, <3>1, <3>2, <3>3
  <2> QED BY <2>1, <2>2, <2>3, UnauditedStep
<1>3. Few => UnauditedByCrash
  BY DEF UnauditedByCrash
<1> QED BY <1>1, <1>2, <1>3, Invariant, PTL DEF Spec

\* What table and audit chain say of a command was done, or denied before.
THEOREM OutcomesAreTrueHolds == Spec => []OutcomesAreTrue
<1> QED BY ExecutedWasActedHolds, DeniedAckHasReasonHolds, UnauditedByCrashHolds, PTL DEF OutcomesAreTrue
===========================================================================
