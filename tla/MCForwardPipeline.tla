-------------------------- MODULE MCForwardPipeline --------------------------
(***************************************************************************)
(* ForwardPipeline for TLC: two forwarders of the device, one of the       *)
(* system.                                                                 *)
(***************************************************************************)
EXTENDS ForwardPipeline, TLC

CONSTANTS f1, f2, s1

Filters == (f1 :> <<"Hy", "#">>) @@ (f2 :> <<"Hy", "+">>) @@ (s1 :> <<"+", "temp">>)
TwoDecoders == (f1 :> {"json", "shape"}) @@ (f2 :> {"json"}) @@ (s1 :> {"json"})
Transformers == (f1 :> {}) @@ (f2 :> {"scale"}) @@ (s1 :> {})
=============================================================================
