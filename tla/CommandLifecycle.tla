--------------------------- MODULE CommandLifecycle ---------------------------
(***************************************************************************)
(* What the command centre promises about one row of the table             *)
(* "devicesconfig", whatever queues, workers, retries and crashes lie      *)
(* between the operator and the device: a command is requested once, a     *)
(* device executes only what was requested, a row is marked RESOLVED only  *)
(* for a command its device has executed, the UI hears of it only then,    *)
(* and a settled row never waits again.                                    *)
(*                                                                         *)
(* ConfigDelivery implements this specification.                           *)
(***************************************************************************)
CONSTANT Rows          \* the rows of "devicesconfig" that may be requested

VARIABLES row,         \* the column "state" of each row
          executed,    \* rows whose command the device has carried out
          notified     \* rows whose resolution the UI has been told of

vars == <<row, executed, notified>>

\* DeviceConfigEnum.ERROR and EXPIRED are declared, and assigned nowhere.
States == {"absent", "waiting", "resolved", "canceled"}

Init == /\ row = [r \in Rows |-> "absent"]
        /\ executed = {}
        /\ notified = {}

Request(r) == /\ row[r] = "absent"
              /\ row' = [row EXCEPT ![r] = "waiting"]
              /\ UNCHANGED <<executed, notified>>

Execute(r) == /\ row[r] # "absent"
              /\ executed' = executed \cup {r}
              /\ UNCHANGED <<row, notified>>

\* A cancel that lands between a handler's read and its save is overwritten.
Resolve(r) == /\ row[r] \in {"waiting", "canceled"}
              /\ r \in executed
              /\ row' = [row EXCEPT ![r] = "resolved"]
              /\ UNCHANGED <<executed, notified>>

Cancel(r) == /\ row[r] # "absent"
             /\ row' = [row EXCEPT ![r] = "canceled"]
             /\ UNCHANGED <<executed, notified>>

Notify(r) == /\ row[r] \in {"resolved", "canceled"}
             /\ r \in executed
             /\ notified' = notified \cup {r}
             /\ UNCHANGED <<row, executed>>

Next == \E r \in Rows : Request(r) \/ Execute(r) \/ Resolve(r) \/ Cancel(r) \/ Notify(r)

Spec == Init /\ [][Next]_vars
=============================================================================
