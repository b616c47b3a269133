---------------------------- MODULE MCCutsBatch ----------------------------
(* An instance of CutsBatch for TLC: two CUTS requests with different settings and a *)
(* standard one.                                                                     *)
EXTENDS CutsBatch

CONSTANTS c1, c2, plain

MixedRequests == {c1, c2, plain}
MixedSignature == (c1 :> "topk") @@ (c2 :> "argmax") @@ (plain :> Std)
=============================================================================
