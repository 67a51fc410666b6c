--------------------------- MODULE PayloadDelivery ---------------------------
(***************************************************************************)
(* What a forwarder promises about one payload, whatever jobs, retries and *)
(* crashes lie between it and its targets: the targets receive it in the   *)
(* order of their list, no attempt to deliver it completes before all of   *)
(* them have received it, and nobody gives it up whose retry policy is     *)
(* "for ever".                                                             *)
(*                                                                         *)
(* ForwardJob implements this specification.                               *)
(***************************************************************************)
EXTENDS Integers

CONSTANT Length       \* of the list of targets

VARIABLES policy,     \* how often the delivery may be retried; -1 is "for ever"
          received,   \* targets that have received the payload
          ended       \* how attempts have ended

vars == <<policy, received, ended>>

Init == /\ policy \in Nat \cup {-1}
        /\ received = {}
        /\ ended = {}

\* A target receives the payload, for the first time or again.
Deliver(i) == /\ 1 .. i - 1 \subseteq received
              /\ received' = received \cup {i}
              /\ UNCHANGED <<policy, ended>>

Complete == /\ received = 1 .. Length
            /\ ended' = ended \cup {"completed"}
            /\ UNCHANGED <<policy, received>>

GiveUp == /\ policy # -1
          /\ ended' = ended \cup {"gaveUp"}
          /\ UNCHANGED <<policy, received>>

\* A crash drops the job that was at it.
Drop == /\ ended' = ended \cup {"dropped"}
        /\ UNCHANGED <<policy, received>>

Next == (\E i \in 1 .. Length : Deliver(i)) \/ Complete \/ GiveUp \/ Drop

Spec == Init /\ [][Next]_vars
=============================================================================
