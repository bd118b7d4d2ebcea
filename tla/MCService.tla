------------------------------ MODULE MCService ------------------------------
(***************************************************************************)
(* Small instances of Service for TLC: the defaults of GatewayConfig::new  *)
(* that the binary uses, a timeout for a slot and no batches.              *)
(***************************************************************************)
EXTENDS ServiceProperties

MCOverflow == [c \in Write |-> "timeout"]
=============================================================================
