-------------------------- MODULE CertificateOfRecord --------------------------
(***************************************************************************)
(* What the command centre promises about the certificates of one device,  *)
(* whatever requests overlap, whichever calls fail and wherever one is cut *)
(* short: only a certificate that works is put on record, and only when    *)
(* there is none; it works until somebody begins to terminate it; only     *)
(* then does it leave the record, and it never gets back.                  *)
(*                                                                         *)
(* DeviceCertificates implements this specification.                       *)
(***************************************************************************)
CONSTANTS Certs, NoCert

VARIABLES record,     \* the certificate on record
          usable,     \* certificates that are active and have Thing and policy
          condemned   \* certificates whose termination has begun

vars == <<record, usable, condemned>>

Init == record = NoCert /\ usable = {} /\ condemned = {}

Provision(c) == /\ c \notin condemned \cup {record}
                /\ usable' = usable \cup {c}
                /\ UNCHANGED <<record, condemned>>

Store(c) == /\ record = NoCert
            /\ c \in usable \ condemned
            /\ record' = c
            /\ UNCHANGED <<usable, condemned>>

Condemn == /\ record # NoCert
           /\ condemned' = condemned \cup {record}
           /\ UNCHANGED <<record, usable>>

\* Each of the calls of a termination takes something that the others need.
Spoil(c) == /\ c \in condemned
            /\ usable' = usable \ {c}
            /\ UNCHANGED <<record, condemned>>

Strike == /\ record \in condemned
          /\ record' = NoCert
          /\ UNCHANGED <<usable, condemned>>

Next == \/ Condemn \/ Strike
        \/ \E c \in Certs : Provision(c) \/ Store(c) \/ Spoil(c)

Spec == Init /\ [][Next]_vars
=============================================================================
