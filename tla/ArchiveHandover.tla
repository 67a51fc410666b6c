---------------------------- MODULE ArchiveHandover ----------------------------
(***************************************************************************)
(* What the command centre promises about the archives of its builds,      *)
(* whatever containers, scripts, downloads and servers do: a build is      *)
(* announced or failed, once; an announced archive exists, and nothing     *)
(* writes to it any more; only announced archives are sent, and one with   *)
(* firmware is deleted only after it has been sent in full.                *)
(*                                                                         *)
(* BuildArtifacts implements this specification.                           *)
(***************************************************************************)
CONSTANT Builds

VARIABLES told,       \* what the client knows of each build
          archive, firmware, \* what there is of it
          sent,       \* builds whose archive or firmware was sent in full
          unlinked    \* builds whose archive was deleted

vars == <<told, archive, firmware, sent, unlinked>>

Init == /\ told = [b \in Builds |-> "pending"]
        /\ archive = [b \in Builds |-> "none"]
        /\ firmware = [b \in Builds |-> FALSE]
        /\ sent = {} /\ unlinked = {}

\* A container may go on writing for a request that has failed.
Write(b) == /\ told[b] # "announced"
            /\ \E written \in {"partial", "whole"}, made \in BOOLEAN :
                 /\ archive' = [archive EXCEPT ![b] = written]
                 /\ firmware' = [firmware EXCEPT ![b] = made]
            /\ UNCHANGED <<told, sent, unlinked>>

Announce(b) == /\ told[b] = "pending"
               /\ archive[b] # "none"
               /\ told' = [told EXCEPT ![b] = "announced"]
               /\ UNCHANGED <<archive, firmware, sent, unlinked>>

\* Several fail at once when the server goes down.
Fail(lost) == /\ \A b \in lost : told[b] = "pending"
              /\ told' = [b \in Builds |-> IF b \in lost THEN "failed" ELSE told[b]]
              /\ UNCHANGED <<archive, firmware, sent, unlinked>>

Send(b) == /\ told[b] = "announced"
           /\ archive[b] = "whole"
           /\ sent' = sent \cup {b}
           /\ UNCHANGED <<told, archive, firmware, unlinked>>

Unlink(b) == /\ told[b] = "announced"
             /\ archive[b] = "whole" /\ firmware[b] => b \in sent
             /\ unlinked' = unlinked \cup {b}
             /\ UNCHANGED <<told, archive, firmware, sent>>

Next == \/ \E b \in Builds : Write(b) \/ Announce(b) \/ Send(b) \/ Unlink(b)
        \/ \E lost \in SUBSET Builds : Fail(lost)

Spec == Init /\ [][Next]_vars
=============================================================================
