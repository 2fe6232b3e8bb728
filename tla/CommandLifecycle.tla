------------------------- MODULE CommandLifecycle -------------------------
(***************************************************************************)
(* What the control_commands table promises of a command's status          *)
(* (VALID_COMMAND_STATUS and the guards of the three UPDATEs in            *)
(* backend/store.py): a command is inserted pending, may be dispatched     *)
(* once, and ends executed or failed for good.                             *)
(***************************************************************************)
CONSTANT Commands

VARIABLE status

Terminal == {"executed", "failed"}

Successors ==
    [absent     |-> {"pending"},
     pending    |-> {"dispatched"} \cup Terminal,
     dispatched |-> Terminal,
     executed   |-> {},
     failed     |-> {}]

Init == status = [c \in Commands |-> "absent"]

Move(c, s) ==
    /\ s \in Successors[status[c]]
    /\ status' = [status EXCEPT ![c] = s]

Next == \E c \in Commands : \E s \in {"pending", "dispatched"} \cup Terminal : Move(c, s)

Spec == Init /\ [][Next]_status
===========================================================================
