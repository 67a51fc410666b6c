----------------------------- MODULE MCForwardJob -----------------------------
(***************************************************************************)
(* ForwardJob for TLC: the retry policies.                                 *)
(***************************************************************************)
EXTENDS ForwardJob

\* no retry, and retries for ever
FirstAndLastPolicy == {0, -1}
=============================================================================
