--------------------------- MODULE MCConfigDelivery ---------------------------
(***************************************************************************)
(* Instances of ConfigDelivery for TLC.                                    *)
(***************************************************************************)
EXTENDS ConfigDelivery, TLC

CONSTANT d1

\* both commands go to one device
OneDevice == [c \in Commands |-> d1]

\* every device listens on the first base
FirstBase == [d \in Devices |-> 1]

\* Concurrent workers can be exchanged, and so can concurrent senders.
RaceSymmetry == Permutations(Workers) \cup Permutations(Senders)
=============================================================================
