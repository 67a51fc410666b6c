------------------------- MODULE MCDeviceCertificates -------------------------
(***************************************************************************)
(* DeviceCertificates for TLC: requests and certificates can be exchanged. *)
(***************************************************************************)
EXTENDS DeviceCertificates, TLC

RequestSymmetry == Permutations(Requests) \cup Permutations(Certs)
=============================================================================
