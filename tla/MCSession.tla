----------------------------- MODULE MCSession ------------------------------
(* Instances of Session for TLC: two hosts with a checkpointer, one host   *)
(* with a reader; the first host may prepare its operation twice.          *)
EXTENDS Session, TLC

CONSTANTS w1, w2, k1, r1

HostQuotas ==
  { w1 :> 2 @@ w2 :> 1 @@ k1 :> 1 @@ r1 :> 0, w1 :> 2 @@ w2 :> 0 @@ k1 :> 0 @@ r1 :> 2 }
=============================================================================
